---- MODULE Spec2Model ----
(***************************************************************************)
(* MCA (merchant cash advance) qualification: the scoring -> decision ->   *)
(* offer pipeline of src/mca_qualification.py.                             *)
(*                                                                         *)
(* Units.  Python floats are modelled by scaled integers:                  *)
(*   scores             tenths of a point      (34.0 points  = 340)        *)
(*   factor rates       thousandths            (1.15         = 1150)       *)
(*   multipliers        tenths                 (1.2          = 12)         *)
(*   percentages        whole percent          (85%          = 85)         *)
(* Strings that the code inspects character by character (the industry     *)
(* label and the configured industry names) are sequences of one-character *)
(* strings; strings the code only passes on are TLA+ strings.  The         *)
(* 'description' and 'reasoning' texts, which no decision reads, are left  *)
(* out of the records.                                                     *)
(***************************************************************************)
EXTENDS Integers, Sequences, FiniteSets, TLC

VARIABLES pc, business_data, config_file, criteria, qualification_score, decision,
          offer, output, stderr, clock, history

vars == <<pc, business_data, config_file, criteria, qualification_score, decision,
          offer, output, stderr, clock, history>>

\* Python's None (falsy; no dict of the program is empty).
None == <<>>

-----------------------------------------------------------------------------
(* Industry names of the built-in criteria, as character sequences.        *)
Healthcare == <<"H", "e", "a", "l", "t", "h", "c", "a", "r", "e">>
ProfessionalServices == <<"P", "r", "o", "f", "e", "s", "s", "i", "o", "n", "a", "l", " ", "S", "e", "r", "v", "i", "c", "e", "s">>
Technology == <<"T", "e", "c", "h", "n", "o", "l", "o", "g", "y">>
Education == <<"E", "d", "u", "c", "a", "t", "i", "o", "n">>
Retail == <<"R", "e", "t", "a", "i", "l">>
ECommerce == <<"E", "-", "c", "o", "m", "m", "e", "r", "c", "e">>
Construction == <<"C", "o", "n", "s", "t", "r", "u", "c", "t", "i", "o", "n">>
Manufacturing == <<"M", "a", "n", "u", "f", "a", "c", "t", "u", "r", "i", "n", "g">>
Restaurant == <<"R", "e", "s", "t", "a", "u", "r", "a", "n", "t">>
Hospitality == <<"H", "o", "s", "p", "i", "t", "a", "l", "i", "t", "y">>
AutoRepair == <<"A", "u", "t", "o", " ", "R", "e", "p", "a", "i", "r">>
SalonSpa == <<"S", "a", "l", "o", "n", "/", "S", "p", "a">>

\* str.lower() on the letters the labels use.
UpperToLower == [A |-> "a", B |-> "b", C |-> "c", D |-> "d", E |-> "e", F |-> "f",
                 G |-> "g", H |-> "h", I |-> "i", J |-> "j", K |-> "k", L |-> "l",
                 M |-> "m", N |-> "n", O |-> "o", P |-> "p", Q |-> "q", R |-> "r",
                 S |-> "s", T |-> "t", U |-> "u", V |-> "v", W |-> "w", X |-> "x",
                 Y |-> "y", Z |-> "z"]

UpperCase == DOMAIN UpperToLower

Lower(s) == [i \in 1..Len(s) |-> IF s[i] \in UpperCase THEN UpperToLower[s[i]] ELSE s[i]]

\* Python's  a in b  for strings: a is a contiguous part of b ('' is in every string).
IsSubstring(a, b) ==
    \E i \in 0..(Len(b) - Len(a)) : \A j \in 1..Len(a) : b[i + j] = a[j]

-----------------------------------------------------------------------------
(* get_default_mca_criteria: the built-in criteria.                        *)
DefaultCriteria ==
    [minimum_requirements |->
        [monthly_revenue |-> 10000, time_in_business_months |-> 6, credit_score |-> 500],
     revenue_tiers |->
        [tier_1 |-> [min |-> 100000, max_advance_percentage |-> 250],
         tier_2 |-> [min |-> 50000, max_advance_percentage |-> 200],
         tier_3 |-> [min |-> 25000, max_advance_percentage |-> 150],
         tier_4 |-> [min |-> 10000, max_advance_percentage |-> 100]],
     credit_score_tiers |->
        [excellent |-> [min |-> 720, factor_rate_adjustment |-> -50],
         good      |-> [min |-> 680, factor_rate_adjustment |-> 0],
         fair      |-> [min |-> 620, factor_rate_adjustment |-> 30],
         poor      |-> [min |-> 550, factor_rate_adjustment |-> 80],
         very_poor |-> [min |-> 500, factor_rate_adjustment |-> 150]],
     time_in_business_multipliers |->
        [established |-> [min_months |-> 36, multiplier |-> 12],
         mature      |-> [min_months |-> 24, multiplier |-> 11],
         growing     |-> [min_months |-> 12, multiplier |-> 10],
         new         |-> [min_months |-> 6, multiplier |-> 8]],
     industry_risk_factors |->
        [low_risk    |-> [industries |-> <<Healthcare, ProfessionalServices, Technology, Education>>,
                          factor_rate_adjustment |-> -20],
         medium_risk |-> [industries |-> <<Retail, ECommerce, Construction, Manufacturing>>,
                          factor_rate_adjustment |-> 0],
         high_risk   |-> [industries |-> <<Restaurant, Hospitality, AutoRepair, SalonSpa>>,
                          factor_rate_adjustment |-> 50]],
     base_factor_rates |->
        [premium   |-> [min_score |-> 850, factor_rate |-> 1150],
         standard  |-> [min_score |-> 700, factor_rate |-> 1250],
         subprime  |-> [min_score |-> 500, factor_rate |-> 1350],
         high_risk |-> [min_score |-> 0, factor_rate |-> 1450]]]

\* The order in which a dict built as in get_default_mca_criteria (or read by
\* json.load from a file that lists the classes in this order) is iterated.
RiskLevelOrder == <<"low_risk", "medium_risk", "high_risk">>

(* Criteria files that load_mca_criteria may read (json.load returns them   *)
(* as they are): one with every minimum requirement at 0, one whose minimum *)
(* requirements lie above the best tiers, and one whose factor-rate numbers *)
(* drive the unclamped sum far outside [1.10, 1.50].                        *)
NoFloorCriteria ==
    [DefaultCriteria EXCEPT !.minimum_requirements =
        [monthly_revenue |-> 0, time_in_business_months |-> 0, credit_score |-> 0]]

HighFloorCriteria ==
    [DefaultCriteria EXCEPT !.minimum_requirements =
        [monthly_revenue |-> 500000, time_in_business_months |-> 36, credit_score |-> 720]]

AdversarialCriteria ==
    [DefaultCriteria EXCEPT
        !.credit_score_tiers.excellent.factor_rate_adjustment = -900,
        !.credit_score_tiers.good.factor_rate_adjustment = -400,
        !.credit_score_tiers.poor.factor_rate_adjustment = 400,
        !.credit_score_tiers.very_poor.factor_rate_adjustment = 2500,
        !.industry_risk_factors.low_risk.factor_rate_adjustment = -700,
        !.industry_risk_factors.high_risk.factor_rate_adjustment = 800,
        !.base_factor_rates.premium.factor_rate = 900,
        !.base_factor_rates.subprime.factor_rate = 1900]

CriteriaFiles == {NoFloorCriteria, HighFloorCriteria, AdversarialCriteria}

-----------------------------------------------------------------------------
(* round(x, 1) on a value given in hundredths, result in tenths.  Python    *)
(* rounds an exactly representable tie to the even digit: 18.75 -> 18.8,    *)
(* 11.25 -> 11.2.  (The only ties the scoring code produces are 25 * 0.75   *)
(* and 15 * 0.75, both exact in binary.)                                    *)
Round1(hundredths) ==
    LET q == hundredths \div 10
        r == hundredths % 10
    IN  IF r > 5 \/ (r = 5 /\ q % 2 = 1) THEN q + 1 ELSE q

\* max_points * 0.85 and the like, in hundredths of a point.
Fraction(max_points, percent) == max_points * percent

score_revenue(monthly_revenue, crit) ==
    LET tiers == crit.revenue_tiers
        max_points == 40
        pick == IF monthly_revenue >= tiers.tier_1.min THEN <<Fraction(max_points, 100), "tier_1">>
                ELSE IF monthly_revenue >= tiers.tier_2.min THEN <<Fraction(max_points, 85), "tier_2">>
                ELSE IF monthly_revenue >= tiers.tier_3.min THEN <<Fraction(max_points, 70), "tier_3">>
                ELSE IF monthly_revenue >= tiers.tier_4.min THEN <<Fraction(max_points, 50), "tier_4">>
                ELSE <<0, "below_minimum">>
    IN  [score |-> Round1(pick[1]), max_points |-> max_points, tier |-> pick[2],
         value |-> monthly_revenue]

\* A variant of score_credit for the check of C2: the percentages of 'good'
\* and 'fair' are exchanged.
score_credit_Swapped(credit_score, crit) ==
    LET tiers == crit.credit_score_tiers
        max_points == 25
        pick == IF credit_score >= tiers.excellent.min THEN <<Fraction(max_points, 100), "excellent">>
                ELSE IF credit_score >= tiers.good.min THEN <<Fraction(max_points, 75), "good">>
                ELSE IF credit_score >= tiers.fair.min THEN <<Fraction(max_points, 90), "fair">>
                ELSE IF credit_score >= tiers.poor.min THEN <<Fraction(max_points, 60), "poor">>
                ELSE IF credit_score >= tiers.very_poor.min THEN <<Fraction(max_points, 40), "very_poor">>
                ELSE <<0, "below_minimum">>
    IN  [score |-> Round1(pick[1]), max_points |-> max_points, tier |-> pick[2],
         value |-> credit_score]

score_credit(credit_score, crit) ==
    LET tiers == crit.credit_score_tiers
        max_points == 25
        pick == IF credit_score >= tiers.excellent.min THEN <<Fraction(max_points, 100), "excellent">>
                ELSE IF credit_score >= tiers.good.min THEN <<Fraction(max_points, 90), "good">>
                ELSE IF credit_score >= tiers.fair.min THEN <<Fraction(max_points, 75), "fair">>
                ELSE IF credit_score >= tiers.poor.min THEN <<Fraction(max_points, 60), "poor">>
                ELSE IF credit_score >= tiers.very_poor.min THEN <<Fraction(max_points, 40), "very_poor">>
                ELSE <<0, "below_minimum">>
    IN  [score |-> Round1(pick[1]), max_points |-> max_points, tier |-> pick[2],
         value |-> credit_score]

\* A variant of score_time_in_business for the check of C25: a business
\* younger than the 'new' tier still has a quarter of the points.
score_time_in_business_NoZero(months, crit) ==
    LET tiers == crit.time_in_business_multipliers
        max_points == 20
        pick == IF months >= tiers.established.min_months THEN <<Fraction(max_points, 100), "established">>
                ELSE IF months >= tiers.mature.min_months THEN <<Fraction(max_points, 85), "mature">>
                ELSE IF months >= tiers.growing.min_months THEN <<Fraction(max_points, 70), "growing">>
                ELSE IF months >= tiers.new.min_months THEN <<Fraction(max_points, 50), "new">>
                ELSE <<Fraction(max_points, 25), "too_new">>
    IN  [score |-> Round1(pick[1]), max_points |-> max_points, tier |-> pick[2],
         value |-> months]

score_time_in_business(months, crit) ==
    LET tiers == crit.time_in_business_multipliers
        max_points == 20
        pick == IF months >= tiers.established.min_months THEN <<Fraction(max_points, 100), "established">>
                ELSE IF months >= tiers.mature.min_months THEN <<Fraction(max_points, 85), "mature">>
                ELSE IF months >= tiers.growing.min_months THEN <<Fraction(max_points, 70), "growing">>
                ELSE IF months >= tiers.new.min_months THEN <<Fraction(max_points, 50), "new">>
                ELSE <<0, "too_new">>
    IN  [score |-> Round1(pick[1]), max_points |-> max_points, tier |-> pick[2],
         value |-> months]

\* any(ind.lower() in industry_lower or industry_lower in ind.lower() for ind in industries)
IndustryMatches(industry_lower, industries) ==
    \E k \in 1..Len(industries) :
        LET ind_lower == Lower(industries[k])
        IN  IsSubstring(ind_lower, industry_lower) \/ IsSubstring(industry_lower, ind_lower)

\* The first risk level, in iteration order, one of whose industries matches;
\* "unknown" when the loop ends without a match.
RECURSIVE FirstMatchingRisk(_, _, _)
FirstMatchingRisk(industry_lower, risk_factors, k) ==
    IF k > Len(RiskLevelOrder) THEN "unknown"
    ELSE IF IndustryMatches(industry_lower, risk_factors[RiskLevelOrder[k]].industries)
         THEN RiskLevelOrder[k]
         ELSE FirstMatchingRisk(industry_lower, risk_factors, k + 1)

\* A variant of score_industry for the check of C29: a high_risk industry has
\* 70% of the points.
score_industry_HighRiskSeventy(industry, crit) ==
    LET risk_factors == crit.industry_risk_factors
        max_points == 15
        risk_level == FirstMatchingRisk(Lower(industry), risk_factors, 1)
        score == IF risk_level = "low_risk" THEN Fraction(max_points, 100)
                 ELSE IF risk_level = "medium_risk" THEN Fraction(max_points, 80)
                 ELSE IF risk_level = "high_risk" THEN Fraction(max_points, 70)
                 ELSE Fraction(max_points, 75)
    IN  [score |-> Round1(score), max_points |-> max_points, risk_level |-> risk_level,
         value |-> industry]

score_industry(industry, crit) ==
    LET risk_factors == crit.industry_risk_factors
        max_points == 15
        risk_level == FirstMatchingRisk(Lower(industry), risk_factors, 1)
        score == IF risk_level = "low_risk" THEN Fraction(max_points, 100)
                 ELSE IF risk_level = "medium_risk" THEN Fraction(max_points, 80)
                 ELSE IF risk_level = "high_risk" THEN Fraction(max_points, 60)
                 ELSE Fraction(max_points, 75)
    IN  [score |-> Round1(score), max_points |-> max_points, risk_level |-> risk_level,
         value |-> industry]

get_score_grade(score) ==
    IF score >= 850 THEN "A"
    ELSE IF score >= 700 THEN "B"
    ELSE IF score >= 500 THEN "C"
    ELSE IF score >= 300 THEN "D"
    ELSE "F"

\* A variant of calculate_qualification_score for the check of C1: the industry
\* sub-score is recorded in the breakdown and not added to the total.
calculate_qualification_score_NoIndustry(data, crit) ==
    LET revenue_score == score_revenue(data.monthly_revenue, crit)
        credit_score == score_credit(data.credit_score, crit)
        time_score == score_time_in_business(data.time_in_business_months, crit)
        industry_score == score_industry(data.industry, crit)
        total_score == revenue_score.score + credit_score.score + time_score.score
    IN  [total_score |-> Round1(total_score * 10),
         max_score |-> 100,
         score_breakdown |-> [revenue |-> revenue_score, credit |-> credit_score,
                              time_in_business |-> time_score, industry |-> industry_score],
         grade |-> get_score_grade(total_score)]

calculate_qualification_score(data, crit) ==
    LET revenue_score == score_revenue(data.monthly_revenue, crit)
        credit_score == score_credit(data.credit_score, crit)
        time_score == score_time_in_business(data.time_in_business_months, crit)
        industry_score == score_industry(data.industry, crit)
        total_score == revenue_score.score + credit_score.score
                       + time_score.score + industry_score.score
    IN  [total_score |-> Round1(total_score * 10),
         max_score |-> 100,
         score_breakdown |-> [revenue |-> revenue_score, credit |-> credit_score,
                              time_in_business |-> time_score, industry |-> industry_score],
         grade |-> get_score_grade(total_score)]

-----------------------------------------------------------------------------
(* Advance calculation engine.                                             *)

\* A variant of get_revenue_tier for the check of C16: tier_1 is never answered.
get_revenue_tier_NoTierOne(monthly_revenue, crit) ==
    LET tiers == crit.revenue_tiers
    IN  IF monthly_revenue >= tiers.tier_2.min THEN "tier_2"
        ELSE IF monthly_revenue >= tiers.tier_3.min THEN "tier_3"
        ELSE "tier_4"

get_revenue_tier(monthly_revenue, crit) ==
    LET tiers == crit.revenue_tiers
    IN  IF monthly_revenue >= tiers.tier_1.min THEN "tier_1"
        ELSE IF monthly_revenue >= tiers.tier_2.min THEN "tier_2"
        ELSE IF monthly_revenue >= tiers.tier_3.min THEN "tier_3"
        ELSE "tier_4"

\* A variant of get_time_tier for the check of C7: > in place of >=.
get_time_tier_Strict(months, crit) ==
    LET tiers == crit.time_in_business_multipliers
    IN  IF months > tiers.established.min_months THEN "established"
        ELSE IF months > tiers.mature.min_months THEN "mature"
        ELSE IF months > tiers.growing.min_months THEN "growing"
        ELSE "new"

get_time_tier(months, crit) ==
    LET tiers == crit.time_in_business_multipliers
    IN  IF months >= tiers.established.min_months THEN "established"
        ELSE IF months >= tiers.mature.min_months THEN "mature"
        ELSE IF months >= tiers.growing.min_months THEN "growing"
        ELSE "new"

get_time_multiplier(months, crit) ==
    crit.time_in_business_multipliers[get_time_tier(months, crit)].multiplier

\* A variant of get_base_factor_band for the check of C18: subprime is tested
\* before standard.
get_base_factor_band_Swapped(score, crit) ==
    LET rates == crit.base_factor_rates
    IN  IF score >= rates.premium.min_score THEN "premium"
        ELSE IF score >= rates.subprime.min_score THEN "subprime"
        ELSE IF score >= rates.standard.min_score THEN "standard"
        ELSE "high_risk"

get_base_factor_band(score, crit) ==
    LET rates == crit.base_factor_rates
    IN  IF score >= rates.premium.min_score THEN "premium"
        ELSE IF score >= rates.standard.min_score THEN "standard"
        ELSE IF score >= rates.subprime.min_score THEN "subprime"
        ELSE "high_risk"

get_base_factor_rate(score, crit) ==
    crit.base_factor_rates[get_base_factor_band(score, crit)].factor_rate

\* A variant of get_credit_tier for the check of C28: without the branch of
\* 'poor', whose values fall to the last branch.
get_credit_tier_NoPoor(credit_score, crit) ==
    LET tiers == crit.credit_score_tiers
    IN  IF credit_score >= tiers.excellent.min THEN "excellent"
        ELSE IF credit_score >= tiers.good.min THEN "good"
        ELSE IF credit_score >= tiers.fair.min THEN "fair"
        ELSE "very_poor"

get_credit_tier(credit_score, crit) ==
    LET tiers == crit.credit_score_tiers
    IN  IF credit_score >= tiers.excellent.min THEN "excellent"
        ELSE IF credit_score >= tiers.good.min THEN "good"
        ELSE IF credit_score >= tiers.fair.min THEN "fair"
        ELSE IF credit_score >= tiers.poor.min THEN "poor"
        ELSE "very_poor"

get_credit_adjustment(credit_score, crit) ==
    crit.credit_score_tiers[get_credit_tier(credit_score, crit)].factor_rate_adjustment

\* A variant of get_industry_adjustment for the check of C13: the classes are
\* tried in the order high_risk, medium_risk, low_risk.
get_industry_adjustment_LastWins(industry, crit) ==
    LET risk_factors == crit.industry_risk_factors
        industry_lower == Lower(industry)
    IN  IF IndustryMatches(industry_lower, risk_factors.high_risk.industries)
        THEN risk_factors.high_risk.factor_rate_adjustment
        ELSE IF IndustryMatches(industry_lower, risk_factors.medium_risk.industries)
        THEN risk_factors.medium_risk.factor_rate_adjustment
        ELSE IF IndustryMatches(industry_lower, risk_factors.low_risk.industries)
        THEN risk_factors.low_risk.factor_rate_adjustment
        ELSE 0

get_industry_adjustment(industry, crit) ==
    LET risk_factors == crit.industry_risk_factors
        risk_level == FirstMatchingRisk(Lower(industry), risk_factors, 1)
    IN  IF risk_level = "unknown" THEN 0
        ELSE risk_factors[risk_level].factor_rate_adjustment

\* A variant of get_recommended_term for the check of C19: the premium band
\* gets the longest term.
get_recommended_term_PremiumLongest(score) ==
    IF score >= 850 THEN 12
    ELSE IF score >= 700 THEN 6
    ELSE IF score >= 500 THEN 9
    ELSE 12

get_recommended_term(score) ==
    IF score >= 850 THEN 6
    ELSE IF score >= 700 THEN 6
    ELSE IF score >= 500 THEN 9
    ELSE 12

Max(a, b) == IF a >= b THEN a ELSE b

Min(a, b) == IF a <= b THEN a ELSE b

\* A variant of ClampFactorRate for the check of C4: the lower bound is missing.
ClampFactorRate_NoFloor(rate) == Min(1500, rate)

\* max(1.10, min(1.50, rate)), in thousandths.
ClampFactorRate(rate) == Max(1100, Min(1500, rate))

\* round(n / d) for n >= 0, d > 0, ties to even.
RoundDiv(n, d) ==
    LET q == n \div d
        r == n % d
    IN  IF 2 * r > d \/ (2 * r = d /\ q % 2 = 1) THEN q + 1 ELSE q

\* A variant of calculate_effective_apr for the check of C20: the rate per
\* month, not multiplied by 12.
calculate_effective_apr_PerMonth(factor_rate, term_months) ==
    IF term_months > 0 THEN RoundDiv((factor_rate - 1000) * 10, term_months) ELSE 0

\* ((factor_rate - 1.0) * 100 / term_months) * 12, rounded to 2 places:
\* the result is in hundredths of a percent.
calculate_effective_apr(factor_rate, term_months) ==
    IF term_months > 0 THEN RoundDiv((factor_rate - 1000) * 120, term_months) ELSE 0

(* Money.  The unrounded advance, monthly_revenue * (pct / 100) * multiplier,*)
(* is held exactly, in thousandths of a dollar; advance times factor rate   *)
(* is then exact in millionths of a dollar, held as <<whole cents, the rest *)
(* in ten-thousandths of a cent>> because the product exceeds 32 bits.      *)
(* Returned amounts are in cents, round(x, 2).  The code computes in binary *)
(* floating point: where the exact amount lies strictly between two half    *)
(* cents the float rounds as the exact amount does; where it is exactly a   *)
(* half cent the float lies a hair to one side of it, which side depending  *)
(* on the operands' binary expansions.  total_repayment and daily_payment   *)
(* are therefore [low, high]: the returned number of cents lies between     *)
(* them, and low = high unless the exact amount is a half cent.             *)
TimesFactorRate(advance, factor_rate) ==
    LET high == advance \div 10000
        low == (advance % 10000) * factor_rate
    IN  <<high * factor_rate + low \div 10000, low % 10000>>

\* round(n / d) for n >= 0, d > 0 computed in floating point.
FloatRoundDiv(n, d) ==
    IF 2 * (n % d) = d
    THEN [low |-> n \div d, high |-> (n \div d) + 1]
    ELSE [low |-> RoundDiv(n, d), high |-> RoundDiv(n, d)]

Plus(cents, range) == [low |-> cents + range.low, high |-> cents + range.high]

\* round(total_repayment, 2) of an amount held as above.
RoundToCents(amount) ==
    Plus(amount[1], FloatRoundDiv(amount[2], 10000))

\* round(total_repayment / days, 2) of an amount held as above.
DividedRoundToCents(amount, days) ==
    Plus(amount[1] \div days, FloatRoundDiv((amount[1] % days) * 10000 + amount[2], days * 10000))

\* A variant of calculate_advance_offer for the check of C21: the advance is
\* rounded to cents before it is multiplied by the factor rate.
calculate_advance_offer_RoundsEarly(data, qscore, crit) ==
    LET monthly_revenue == data.monthly_revenue
        revenue_tier == get_revenue_tier(monthly_revenue, crit)
        max_advance_pct == crit.revenue_tiers[revenue_tier].max_advance_percentage
        time_multiplier == get_time_multiplier(data.time_in_business_months, crit)
        adjusted_advance == monthly_revenue * max_advance_pct * time_multiplier
        base_factor_rate == get_base_factor_rate(qscore.total_score, crit)
        credit_adjustment == get_credit_adjustment(data.credit_score, crit)
        industry_adjustment == get_industry_adjustment(data.industry, crit)
        final_factor_rate == ClampFactorRate(base_factor_rate + credit_adjustment
                                             + industry_adjustment)
        recommended_term == get_recommended_term(qscore.total_score)
        total_repayment == TimesFactorRate(RoundDiv(adjusted_advance, 10) * 10,
                                           final_factor_rate)
    IN  [advance_amount |-> RoundDiv(adjusted_advance, 10),
         factor_rate |-> final_factor_rate,
         total_repayment |-> RoundToCents(total_repayment),
         recommended_term_months |-> recommended_term,
         daily_payment |-> DividedRoundToCents(total_repayment, recommended_term * 22),
         effective_apr |-> calculate_effective_apr(final_factor_rate, recommended_term),
         calculation_details |->
            [base_advance_percentage |-> max_advance_pct,
             time_in_business_multiplier |-> time_multiplier,
             base_factor_rate |-> base_factor_rate,
             credit_adjustment |-> credit_adjustment,
             industry_adjustment |-> industry_adjustment]]

(* calculate_advance_offer.  advance_amount is in cents, round(adjusted_     *)
(* advance, 2) (the unrounded advance of no criteria set here is a half     *)
(* cent).                                                                   *)
calculate_advance_offer(data, qscore, crit) ==
    LET monthly_revenue == data.monthly_revenue
        revenue_tier == get_revenue_tier(monthly_revenue, crit)
        max_advance_pct == crit.revenue_tiers[revenue_tier].max_advance_percentage
        time_multiplier == get_time_multiplier(data.time_in_business_months, crit)
        adjusted_advance == monthly_revenue * max_advance_pct * time_multiplier
        base_factor_rate == get_base_factor_rate(qscore.total_score, crit)
        credit_adjustment == get_credit_adjustment(data.credit_score, crit)
        industry_adjustment == get_industry_adjustment(data.industry, crit)
        final_factor_rate == ClampFactorRate(base_factor_rate + credit_adjustment
                                             + industry_adjustment)
        recommended_term == get_recommended_term(qscore.total_score)
        total_repayment == TimesFactorRate(adjusted_advance, final_factor_rate)
    IN  [advance_amount |-> RoundDiv(adjusted_advance, 10),
         factor_rate |-> final_factor_rate,
         total_repayment |-> RoundToCents(total_repayment),
         recommended_term_months |-> recommended_term,
         daily_payment |-> DividedRoundToCents(total_repayment, recommended_term * 22),
         effective_apr |-> calculate_effective_apr(final_factor_rate, recommended_term),
         calculation_details |->
            [base_advance_percentage |-> max_advance_pct,
             time_in_business_multiplier |-> time_multiplier,
             base_factor_rate |-> base_factor_rate,
             credit_adjustment |-> credit_adjustment,
             industry_adjustment |-> industry_adjustment]]

-----------------------------------------------------------------------------
(* Qualification decision engine.  A reason that the code formats from a    *)
(* fixed text and the applicant's values is the record of that text's       *)
(* subject and the values.                                                  *)

\* A variant of get_approval_tier for the check of C11: Standard begins at 75.
get_approval_tier_Late(score) ==
    IF score >= 850 THEN "Premium"
    ELSE IF score >= 750 THEN "Standard"
    ELSE "Subprime"

get_approval_tier(score) ==
    IF score >= 850 THEN "Premium"
    ELSE IF score >= 700 THEN "Standard"
    ELSE "Subprime"

\* A variant of get_confidence_level for the check of C27: High begins at 80.
get_confidence_level_Early(score) ==
    IF score >= 800 THEN "High"
    ELSE IF score >= 700 THEN "Medium-High"
    ELSE IF score >= 500 THEN "Medium"
    ELSE "Low"

get_confidence_level(score) ==
    IF score >= 850 THEN "High"
    ELSE IF score >= 700 THEN "Medium-High"
    ELSE IF score >= 500 THEN "Medium"
    ELSE "Low"

\* reasons.append(...) under a condition.
AppendIf(seq, cond, item) == IF cond THEN Append(seq, item) ELSE seq

get_approval_reasons(qscore) ==
    LET breakdown == qscore.score_breakdown
        r1 == AppendIf(<<>>, breakdown.revenue.score >= 300,
                       [about |-> "Strong monthly revenue", value |-> breakdown.revenue.value])
        r2 == AppendIf(r1, breakdown.credit.score >= 200,
                       [about |-> "Good credit profile", value |-> breakdown.credit.value])
        r3 == AppendIf(r2, breakdown.time_in_business.score >= 150,
                       [about |-> "Established business", value |-> breakdown.time_in_business.value])
        r4 == AppendIf(r3, breakdown.industry.score >= 120,
                       [about |-> "Favorable industry profile", value |-> breakdown.industry.value])
    IN  IF r4 = <<>> THEN <<[about |-> "Meets all minimum qualification requirements", value |-> None]>>
        ELSE r4

\* A variant of get_approval_conditions for the check of C30: the list is
\* returned as it is, empty when no condition applies.
get_approval_conditions_NoDefault(score, data) ==
    LET c1 == AppendIf(<<>>, score < 700, "Subject to bank statement review for final approval")
        c2 == AppendIf(c1, data.credit_score < 620, "May require personal guarantee")
        c3 == AppendIf(c2, data.time_in_business_months < 12,
                       "Additional documentation required (tax returns, bank statements)")
    IN  c3

get_approval_conditions(score, data) ==
    LET c1 == AppendIf(<<>>, score < 700, "Subject to bank statement review for final approval")
        c2 == AppendIf(c1, data.credit_score < 620, "May require personal guarantee")
        c3 == AppendIf(c2, data.time_in_business_months < 12,
                       "Additional documentation required (tax returns, bank statements)")
    IN  IF c3 # <<>> THEN c3 ELSE <<"Standard approval - no additional conditions">>

\* 'revenue' in rejection.lower(), and so on: the three texts of the
\* minimum-requirement check are "Monthly revenue $.. below minimum $..",
\* "Time in business .. months below minimum .. months" and
\* "Credit score .. below minimum ..", and each holds one of the three words.
Mentions(about, word) ==
    <<about, word>> \in {<<"Monthly revenue", "revenue">>,
                         <<"Time in business", "time in business">>,
                         <<"Credit score", "credit score">>}

RECURSIVE RecommendationsFor(_, _)
RecommendationsFor(rejections, k) ==
    IF k > Len(rejections) THEN <<>>
    ELSE LET about == rejections[k].about
             a == AppendIf(<<>>, Mentions(about, "revenue"),
                           "Focus on increasing monthly revenue through sales growth or additional revenue streams")
             b == AppendIf(a, Mentions(about, "time in business"),
                           "Reapply after 6+ months in business with consistent revenue")
             c == AppendIf(b, Mentions(about, "credit score"),
                           "Work on improving business credit score through timely payments and credit utilization")
         IN  c \o RecommendationsFor(rejections, k + 1)

get_rejection_recommendations(rejections) ==
    Append(RecommendationsFor(rejections, 1),
           "Consider alternative financing options (business credit cards, SBA loans, equipment financing)")

\* A variant of get_low_score_reasons for the check of C10: the reasons are
\* collected lowest sub-score first (industry, credit and time in business
\* before revenue), not criterion by criterion.
get_low_score_reasons_Reordered(qscore) ==
    LET breakdown == qscore.score_breakdown
        r1 == AppendIf(<<>>, breakdown.industry.score < 100,
                       [about |-> "High-risk industry", value |-> breakdown.industry.value])
        r2 == AppendIf(r1, breakdown.credit.score < 150,
                       [about |-> "Below-average credit score", value |-> breakdown.credit.value])
        r3 == AppendIf(r2, breakdown.time_in_business.score < 100,
                       [about |-> "Limited operating history", value |-> breakdown.time_in_business.value])
        r4 == AppendIf(r3, breakdown.revenue.score < 200,
                       [about |-> "Low monthly revenue", value |-> breakdown.revenue.value])
    IN  r4

get_low_score_reasons(qscore) ==
    LET breakdown == qscore.score_breakdown
        r1 == AppendIf(<<>>, breakdown.revenue.score < 200,
                       [about |-> "Low monthly revenue", value |-> breakdown.revenue.value])
        r2 == AppendIf(r1, breakdown.credit.score < 150,
                       [about |-> "Below-average credit score", value |-> breakdown.credit.value])
        r3 == AppendIf(r2, breakdown.time_in_business.score < 100,
                       [about |-> "Limited operating history", value |-> breakdown.time_in_business.value])
        r4 == AppendIf(r3, breakdown.industry.score < 100,
                       [about |-> "High-risk industry", value |-> breakdown.industry.value])
    IN  r4

get_improvement_recommendations(qscore) ==
    LET breakdown == qscore.score_breakdown
        r1 == AppendIf(<<>>, breakdown.revenue.score < 250,
                       "Increase monthly revenue to $50,000+ for better terms")
        r2 == AppendIf(r1, breakdown.credit.score < 180,
                       "Improve credit score to 650+ through consistent payment history")
        r3 == AppendIf(r2, breakdown.time_in_business.score < 140,
                       "Build longer operating history (12+ months preferred)")
    IN  Append(r3, "Reapply in 3-6 months with improved financials")

\* A variant of FloorRejections for the check of C3: the credit score is
\* compared with the minimum number of months.
FloorRejections_WrongMinimum(data, min_req) ==
    LET r1 == AppendIf(<<>>, data.monthly_revenue < min_req.monthly_revenue,
                       [about |-> "Monthly revenue", value |-> data.monthly_revenue,
                        minimum |-> min_req.monthly_revenue])
        r2 == AppendIf(r1, data.time_in_business_months < min_req.time_in_business_months,
                       [about |-> "Time in business", value |-> data.time_in_business_months,
                        minimum |-> min_req.time_in_business_months])
        r3 == AppendIf(r2, data.credit_score < min_req.time_in_business_months,
                       [about |-> "Credit score", value |-> data.credit_score,
                        minimum |-> min_req.credit_score])
    IN  r3

\* A variant of FloorRejections for the check of C9: elif in place of if, so
\* that the first violation hides the others.
FloorRejections_FirstOnly(data, min_req) ==
    IF data.monthly_revenue < min_req.monthly_revenue
    THEN <<[about |-> "Monthly revenue", value |-> data.monthly_revenue,
            minimum |-> min_req.monthly_revenue]>>
    ELSE IF data.time_in_business_months < min_req.time_in_business_months
    THEN <<[about |-> "Time in business", value |-> data.time_in_business_months,
            minimum |-> min_req.time_in_business_months]>>
    ELSE IF data.credit_score < min_req.credit_score
    THEN <<[about |-> "Credit score", value |-> data.credit_score,
            minimum |-> min_req.credit_score]>>
    ELSE <<>>

\* The minimum-requirement checks: each is made, in this order.
FloorRejections(data, min_req) ==
    LET r1 == AppendIf(<<>>, data.monthly_revenue < min_req.monthly_revenue,
                       [about |-> "Monthly revenue", value |-> data.monthly_revenue,
                        minimum |-> min_req.monthly_revenue])
        r2 == AppendIf(r1, data.time_in_business_months < min_req.time_in_business_months,
                       [about |-> "Time in business", value |-> data.time_in_business_months,
                        minimum |-> min_req.time_in_business_months])
        r3 == AppendIf(r2, data.credit_score < min_req.credit_score,
                       [about |-> "Credit score", value |-> data.credit_score,
                        minimum |-> min_req.credit_score])
    IN  r3

\* A variant of make_qualification_decision for the check of C8: score > 50 in
\* place of score >= 50.
make_qualification_decision_StrictThreshold(data, qscore, crit) ==
    LET min_req == crit.minimum_requirements
        rejections == FloorRejections(data, min_req)
        score == qscore.total_score
        grade == qscore.grade
    IN  IF rejections # <<>>
        THEN [status |-> "REJECTED",
              decision |-> "declined",
              primary_reason |-> [about |-> "Does not meet minimum requirements"],
              rejection_reasons |-> rejections,
              recommendations |-> get_rejection_recommendations(rejections)]
        ELSE IF score > 500
        THEN [status |-> "APPROVED",
              decision |-> "approved",
              approval_tier |-> get_approval_tier(score),
              confidence_level |-> get_confidence_level(score),
              approval_reasons |-> get_approval_reasons(qscore),
              conditions |-> get_approval_conditions(score, data)]
        ELSE [status |-> "REJECTED",
              decision |-> "declined",
              primary_reason |-> [about |-> "Qualification score below approval threshold",
                                  score |-> score, grade |-> grade],
              rejection_reasons |-> get_low_score_reasons(qscore),
              recommendations |-> get_improvement_recommendations(qscore)]

make_qualification_decision(data, qscore, crit) ==
    LET min_req == crit.minimum_requirements
        rejections == FloorRejections(data, min_req)
        score == qscore.total_score
        grade == qscore.grade
    IN  IF rejections # <<>>
        THEN [status |-> "REJECTED",
              decision |-> "declined",
              primary_reason |-> [about |-> "Does not meet minimum requirements"],
              rejection_reasons |-> rejections,
              recommendations |-> get_rejection_recommendations(rejections)]
        ELSE IF score >= 500
        THEN [status |-> "APPROVED",
              decision |-> "approved",
              approval_tier |-> get_approval_tier(score),
              confidence_level |-> get_confidence_level(score),
              approval_reasons |-> get_approval_reasons(qscore),
              conditions |-> get_approval_conditions(score, data)]
        ELSE [status |-> "REJECTED",
              decision |-> "declined",
              primary_reason |-> [about |-> "Qualification score below approval threshold",
                                  score |-> score, grade |-> grade],
              rejection_reasons |-> get_low_score_reasons(qscore),
              recommendations |-> get_improvement_recommendations(qscore)]

-----------------------------------------------------------------------------
(* Inputs.  The applicant values lie at and just below every threshold of   *)
(* the criteria, plus the values of the documented examples.                *)

\* How far below a threshold the applicant values reach.
Spread == 1

Near(t) == (t - Spread)..t

RevenueValues == {0, 5000} \cup Near(10000) \cup Near(25000) \cup Near(50000)
                 \cup Near(100000) \cup Near(500000)

CreditValues == {650} \cup Near(500) \cup Near(550) \cup Near(620) \cup Near(680) \cup Near(720)

MonthsValues == {0} \cup Near(6) \cup Near(12) \cup Near(24) \cup Near(36)

\* "retail" (lower case), "Agriculture" (in no class) and "Auto Repair and Retail"
\* (a medium_risk and a high_risk name in one label).
IndustryLabels ==
    {Restaurant, Healthcare,
     <<"r", "e", "t", "a", "i", "l">>,
     <<"A", "g", "r", "i", "c", "u", "l", "t", "u", "r", "e">>,
     AutoRepair \o <<" ", "a", "n", "d", " ">> \o Retail}

Applicants ==
    [monthly_revenue : RevenueValues, credit_score : CreditValues,
     time_in_business_months : MonthsValues, industry : IndustryLabels]

-----------------------------------------------------------------------------
(* main: one run of the pipeline.                                          *)

\* now is datetime.now(): the reading of the clock.
format_output(data, qscore, dec, off, now) ==
    LET result == [qualification_metadata |-> [timestamp |-> now, business_details |-> data],
                   qualification_score |-> qscore,
                   decision |-> dec]
    IN  IF off # None THEN result @@ [offer_details |-> off] ELSE result

Init ==
    /\ pc = "start"
    /\ business_data = None
    /\ config_file = None
    /\ criteria = None
    /\ qualification_score = None
    /\ decision = None
    /\ offer = None
    /\ output = None
    /\ stderr = <<>>
    /\ clock = 0
    /\ history = <<>>

\* Step 1: parse_arguments / read_stdin_json hand over an applicant record.
GetInput ==
    /\ pc = "start"
    /\ \E data \in Applicants : business_data' = data
    /\ pc' = "input"
    /\ UNCHANGED <<clock, history, config_file, criteria, qualification_score, decision, offer, output, stderr>>

(* Step 2: load_mca_criteria.  config_file is what open(config_path) and    *)
(* json.load found: a document, which is returned as it is ...              *)
LoadCriteriaFile ==
    /\ pc = "input"
    /\ \E config \in CriteriaFiles :
           /\ config_file' = [found |-> "document", document |-> config]
           /\ criteria' = config
    /\ stderr' = Append(stderr, "Loading MCA qualification criteria...")
    /\ pc' = "loaded"
    /\ UNCHANGED <<clock, history, business_data, qualification_score, decision, offer, output>>

\* ... no file (FileNotFoundError): the defaults, with a warning ...
LoadCriteriaDefault ==
    /\ pc = "input"
    /\ config_file' = [found |-> "no file"]
    /\ criteria' = DefaultCriteria
    /\ stderr' = stderr \o <<"Loading MCA qualification criteria...",
                             "Warning: MCA config file not found, using defaults">>
    /\ pc' = "loaded"
    /\ UNCHANGED <<clock, history, business_data, qualification_score, decision, offer, output>>

\* A variant of LoadCriteriaInvalidJson for the check of C15: the defaults are
\* returned without the warning.
LoadCriteriaInvalidJson_Silent ==
    /\ pc = "input"
    /\ config_file' = [found |-> "invalid JSON"]
    /\ criteria' = DefaultCriteria
    /\ stderr' = Append(stderr, "Loading MCA qualification criteria...")
    /\ pc' = "loaded"
    /\ UNCHANGED <<clock, history, business_data, qualification_score, decision, offer, output>>

\* ... or a file that is not JSON (JSONDecodeError): the same, with another warning.
LoadCriteriaInvalidJson ==
    /\ pc = "input"
    /\ config_file' = [found |-> "invalid JSON"]
    /\ criteria' = DefaultCriteria
    /\ stderr' = stderr \o <<"Loading MCA qualification criteria...",
                             "Warning: Invalid JSON in MCA config, using defaults">>
    /\ pc' = "loaded"
    /\ UNCHANGED <<clock, history, business_data, qualification_score, decision, offer, output>>

\* A variant of Score for the check of C23: the industry label is put in
\* lower case in the applicant data itself.
Score_LowersInPlace ==
    /\ pc = "loaded"
    /\ qualification_score' = calculate_qualification_score(business_data, criteria)
    /\ business_data' = [business_data EXCEPT !.industry = Lower(@)]
    /\ stderr' = Append(stderr, "Calculating qualification score...")
    /\ pc' = "scored"
    /\ UNCHANGED <<clock, history, config_file, criteria, decision, offer, output>>

\* Step 3.
Score ==
    /\ pc = "loaded"
    /\ qualification_score' = calculate_qualification_score(business_data, criteria)
    /\ stderr' = Append(stderr, "Calculating qualification score...")
    /\ pc' = "scored"
    /\ UNCHANGED <<clock, history, config_file, business_data, criteria, decision, offer, output>>

\* A variant of Decide for the check of C22: the decision is taken on the
\* score the evaluation before this one left behind.
Decide_StaleScore ==
    /\ pc = "scored"
    /\ decision' =
           make_qualification_decision(
               business_data,
               IF history = <<>> THEN qualification_score
               ELSE history[Len(history)].qualification_score,
               criteria)
    /\ stderr' = Append(stderr, "Evaluating qualification...")
    /\ pc' = "decided"
    /\ UNCHANGED <<clock, history, config_file, business_data, criteria, qualification_score, offer, output>>

\* Step 4.
Decide ==
    /\ pc = "scored"
    /\ decision' = make_qualification_decision(business_data, qualification_score, criteria)
    /\ stderr' = Append(stderr, "Evaluating qualification...")
    /\ pc' = "decided"
    /\ UNCHANGED <<clock, history, config_file, business_data, criteria, qualification_score, offer, output>>

\* A variant of CalculateOffer for the check of C6: the test of the decision
\* is missing.
CalculateOffer_Unguarded ==
    /\ pc = "decided"
    /\ offer' = calculate_advance_offer(business_data, qualification_score, criteria)
    /\ stderr' = Append(stderr, "Calculating advance offer...")
    /\ pc' = "offer_step_done"
    /\ UNCHANGED <<clock, history, config_file, business_data, criteria, qualification_score, decision, output>>

\* Step 5, decision['decision'] == 'approved'.
CalculateOffer ==
    /\ pc = "decided"
    /\ decision.decision = "approved"
    /\ offer' = calculate_advance_offer(business_data, qualification_score, criteria)
    /\ stderr' = Append(stderr, "Calculating advance offer...")
    /\ pc' = "offer_step_done"
    /\ UNCHANGED <<clock, history, config_file, business_data, criteria, qualification_score, decision, output>>

\* Step 5 otherwise: offer stays None.
NoOffer ==
    /\ pc = "decided"
    /\ decision.decision # "approved"
    /\ offer' = None
    /\ pc' = "offer_step_done"
    /\ UNCHANGED <<clock, history, config_file, business_data, criteria, qualification_score, decision, output, stderr>>

\* Step 6: the document is written to stdout, the summary to stderr.
FormatOutput ==
    /\ pc = "offer_step_done"
    /\ output' = format_output(business_data, qualification_score, decision, offer, clock)
    /\ stderr' = Append(stderr, "Qualification completed!")
    /\ pc' = "done"
    /\ UNCHANGED <<clock, history, config_file, business_data, criteria, qualification_score, decision, offer>>

(* A caller other than main (the functions are importable) hands the same   *)
(* applicant, score and criteria to calculate_advance_offer, whatever the   *)
(* decision was.                                                            *)
CallOfferStage ==
    /\ pc = "decided"
    /\ offer' = calculate_advance_offer(business_data, qualification_score, criteria)
    /\ pc' = "offer_stage_called"
    /\ UNCHANGED <<clock, history, config_file, business_data, criteria, qualification_score, decision, output, stderr>>

Next ==
    \/ GetInput
    \/ LoadCriteriaFile
    \/ LoadCriteriaDefault
    \/ LoadCriteriaInvalidJson
    \/ Score
    \/ Decide
    \/ CalculateOffer
    \/ NoOffer
    \/ FormatOutput
    \/ CallOfferStage

Spec == Init /\ [][Next]_vars


-----------------------------------------------------------------------------
(* main in Make.com mode: the applicant is a JSON document on stdin.  The    *)
(* documents hold values at and beyond the ends of the documented domains   *)
(* (revenue and months from 0, credit score 300-850), or lack a field.      *)

required_fields == <<"monthly_revenue", "time_in_business_months", "credit_score", "industry">>

CompleteDocuments ==
    [monthly_revenue : {-1, 0, 50000}, credit_score : {299, 300, 850, 851},
     time_in_business_months : {-1, 0, 24},
     industry : {Restaurant, <<"A", "g", "r", "i", "c", "u", "l", "t", "u", "r", "e">>}]

\* A document without the k-th required field.
Without(doc, k) ==
    [f \in DOMAIN doc \ {required_fields[k]} |-> doc[f]]

StdinDocuments ==
    CompleteDocuments
    \cup {Without(doc, k) : doc \in {d \in CompleteDocuments : d.credit_score = 850},
                            k \in DOMAIN required_fields}

\* The first required field that a document lacks: the message of the ValueError.
MissingFieldError(doc) ==
    LET k == CHOOSE i \in DOMAIN required_fields :
                 /\ required_fields[i] \notin DOMAIN doc
                 /\ \A j \in 1..(i - 1) : required_fields[j] \in DOMAIN doc
    IN  <<"Error: JSON must contain field", required_fields[k]>>

\* Step 1, read_stdin_json: every required field is in the document.
ReadStdinJson ==
    /\ pc = "start"
    /\ \E data \in StdinDocuments :
           /\ \A k \in DOMAIN required_fields : required_fields[k] \in DOMAIN data
           /\ business_data' = data
    /\ pc' = "input"
    /\ UNCHANGED <<clock, history, config_file, criteria, qualification_score, decision, offer, output, stderr>>

\* Step 1, read_stdin_json raises ValueError: main reports it and exits with 1.
ReadStdinJsonFails ==
    /\ pc = "start"
    /\ \E data \in StdinDocuments :
           /\ \E k \in DOMAIN required_fields : required_fields[k] \notin DOMAIN data
           /\ stderr' = stderr \o MissingFieldError(data)
    /\ pc' = "error"
    /\ UNCHANGED <<clock, history, config_file, business_data, criteria, qualification_score, decision, offer, output>>

NextStdin ==
    \/ ReadStdinJson
    \/ ReadStdinJsonFails
    \/ LoadCriteriaFile
    \/ LoadCriteriaDefault
    \/ LoadCriteriaInvalidJson
    \/ Score
    \/ Decide
    \/ CalculateOffer
    \/ NoOffer
    \/ FormatOutput

SpecStdin == Init /\ [][NextStdin]_vars

-----------------------------------------------------------------------------
(* main with a criteria file that is JSON but no coherent configuration:    *)
(* one whose first revenue tier begins below the second, and one whose      *)
(* time-in-business multipliers fall and rise again.                        *)

UnorderedCriteria ==
    [DefaultCriteria EXCEPT !.revenue_tiers.tier_1.min = 20000]

NonMonotoneCriteria ==
    [DefaultCriteria EXCEPT !.time_in_business_multipliers.growing.multiplier = 14]

IncoherentCriteriaFiles == {UnorderedCriteria, NonMonotoneCriteria}

\* Step 2: json.load succeeds and load_mca_criteria returns the document.
LoadIncoherentCriteriaFile ==
    /\ pc = "input"
    /\ \E config \in IncoherentCriteriaFiles :
           /\ config_file' = [found |-> "document", document |-> config]
           /\ criteria' = config
    /\ stderr' = Append(stderr, "Loading MCA qualification criteria...")
    /\ pc' = "loaded"
    /\ UNCHANGED <<clock, history, business_data, qualification_score, decision, offer, output>>

NextIncoherent ==
    \/ ReadStdinJson
    \/ ReadStdinJsonFails
    \/ LoadIncoherentCriteriaFile
    \/ Score
    \/ Decide
    \/ CalculateOffer
    \/ NoOffer
    \/ FormatOutput

SpecIncoherent == Init /\ [][NextIncoherent]_vars

-----------------------------------------------------------------------------
(* main and the direct call, with one more criteria file: advance           *)
(* percentages that make the unrounded advance a fraction of a cent (never  *)
(* a half cent: every product of an even percentage is even).               *)

SubCentCriteria ==
    [DefaultCriteria EXCEPT
        !.revenue_tiers.tier_1.max_advance_percentage = 248,
        !.revenue_tiers.tier_2.max_advance_percentage = 196,
        !.revenue_tiers.tier_3.max_advance_percentage = 148,
        !.revenue_tiers.tier_4.max_advance_percentage = 98]

LoadSubCentCriteriaFile ==
    /\ pc = "input"
    /\ config_file' = [found |-> "document", document |-> SubCentCriteria]
    /\ criteria' = SubCentCriteria
    /\ stderr' = Append(stderr, "Loading MCA qualification criteria...")
    /\ pc' = "loaded"
    /\ UNCHANGED <<clock, history, business_data, qualification_score, decision, offer, output>>

NextSubCent ==
    \/ GetInput
    \/ LoadCriteriaFile
    \/ LoadCriteriaDefault
    \/ LoadCriteriaInvalidJson
    \/ LoadSubCentCriteriaFile
    \/ Score
    \/ Decide
    \/ CalculateOffer
    \/ NoOffer
    \/ FormatOutput
    \/ CallOfferStage

SpecSubCent == Init /\ [][NextSubCent]_vars

-----------------------------------------------------------------------------
(* Several evaluations, one after the other: main run again, or a caller    *)
(* that has loaded the criteria calling the stages again for the next       *)
(* applicant.  history keeps the finished evaluations in their order, and   *)
(* clock is the reading of the clock, which moves on from one evaluation to *)
(* the next.  The applicants: scenario A, one below the lowest revenue      *)
(* tier, and one at every floor.                                            *)

\* How many evaluations follow one another.
MaxEvaluations == 3

SessionApplicants ==
    {[monthly_revenue |-> 500000, credit_score |-> 650, time_in_business_months |-> 24,
      industry |-> Restaurant],
     [monthly_revenue |-> 5000, credit_score |-> 720, time_in_business_months |-> 36,
      industry |-> Healthcare],
     [monthly_revenue |-> 10000, credit_score |-> 500, time_in_business_months |-> 6,
      industry |-> Restaurant]}

\* What an evaluation took and what it returned.
Evaluation ==
    [business_data |-> business_data, criteria |-> criteria,
     qualification_score |-> qualification_score, decision |-> decision,
     offer |-> offer, output |-> output]

GetSessionInput ==
    /\ pc = "start"
    /\ \E data \in SessionApplicants : business_data' = data
    /\ pc' = "input"
    /\ UNCHANGED <<clock, history, config_file, criteria, qualification_score, decision, offer,
                   output, stderr>>

\* main is run again: a new process, which has nothing of the last one.
RunAgain ==
    /\ pc = "done"
    /\ clock + 1 < MaxEvaluations
    /\ history' = Append(history, Evaluation)
    /\ clock' = clock + 1
    /\ pc' = "start"
    /\ business_data' = None
    /\ config_file' = None
    /\ criteria' = None
    /\ qualification_score' = None
    /\ decision' = None
    /\ offer' = None
    /\ output' = None
    /\ stderr' = <<>>

\* The caller keeps the criteria it loaded and evaluates the next applicant.
EvaluateAgain ==
    /\ pc = "done"
    /\ clock + 1 < MaxEvaluations
    /\ history' = Append(history, Evaluation)
    /\ clock' = clock + 1
    /\ \E data \in SessionApplicants : business_data' = data
    /\ pc' = "loaded"
    /\ qualification_score' = None
    /\ decision' = None
    /\ offer' = None
    /\ output' = None
    /\ UNCHANGED <<config_file, criteria, stderr>>

NextSession ==
    \/ GetSessionInput
    \/ LoadCriteriaFile
    \/ LoadCriteriaDefault
    \/ LoadCriteriaInvalidJson
    \/ Score
    \/ Decide
    \/ CalculateOffer
    \/ NoOffer
    \/ FormatOutput
    \/ RunAgain
    \/ EvaluateAgain

SpecSession == Init /\ [][NextSession]_vars

-----------------------------------------------------------------------------
(* Step 1 with a command line: parse_arguments.  An option that is not on   *)
(* the command line is None after parse_args(); here it is not in the       *)
(* domain of args.  --revenue is parsed as a float, --time-in-business and  *)
(* --credit-score as int, --industry as a string.                           *)

option_of ==
    [monthly_revenue |-> "revenue", time_in_business_months |-> "time_in_business",
     credit_score |-> "credit_score", industry |-> "industry"]

CompleteCommandLines ==
    [revenue : {0, 50000}, time_in_business : {0, 24}, credit_score : {650},
     industry : {Restaurant}]

\* Every command line with some of the options of a complete one, or none.
CommandLines ==
    {[o \in given |-> line[o]] : given \in SUBSET {"revenue", "time_in_business",
                                                     "credit_score", "industry"},
                                 line \in CompleteCommandLines}

\* The truth value Python gives args.<option>: None, 0, 0.0 and '' are false.
Truthy(args, option) ==
    /\ option \in DOMAIN args
    /\ IF option = "industry" THEN args[option] # <<>> ELSE args[option] # 0

AllArguments(args) ==
    /\ Truthy(args, "revenue")
    /\ Truthy(args, "time_in_business")
    /\ Truthy(args, "credit_score")
    /\ Truthy(args, "industry")

AnyArgument(args) ==
    \/ Truthy(args, "revenue")
    \/ Truthy(args, "time_in_business")
    \/ Truthy(args, "credit_score")
    \/ Truthy(args, "industry")

\* The dictionary parse_arguments returns, of the options that are given.
FromArguments(args) ==
    [field \in {f \in DOMAIN option_of : option_of[f] \in DOMAIN args} |->
        args[option_of[field]]]

\* A variant of ParseArguments for the check of C24: one true option is enough.
ParseArguments_AnyGiven ==
    /\ pc = "start"
    /\ \E args \in CommandLines :
           /\ AnyArgument(args)
           /\ business_data' = FromArguments(args)
    /\ pc' = "input"
    /\ UNCHANGED <<clock, history, config_file, criteria, qualification_score, decision, offer,
                   output, stderr>>

\* parse_arguments returns the business data: all four options are true.
ParseArguments ==
    /\ pc = "start"
    /\ \E args \in CommandLines :
           /\ AllArguments(args)
           /\ business_data' = FromArguments(args)
    /\ pc' = "input"
    /\ UNCHANGED <<clock, history, config_file, criteria, qualification_score, decision, offer,
                   output, stderr>>

\* Not all four options are true and stdin is a terminal: parser.error, or
\* print_help and sys.exit(1).  The process ends.
ParseArgumentsExits ==
    /\ pc = "start"
    /\ \E args \in CommandLines :
           /\ ~AllArguments(args)
           /\ stderr' = (IF AnyArgument(args)
                         THEN Append(stderr, "error: All arguments required")
                         ELSE Append(stderr, "usage"))
    /\ pc' = "error"
    /\ UNCHANGED <<clock, history, config_file, business_data, criteria, qualification_score,
                   decision, offer, output>>

\* Not all four options are true and stdin is not a terminal: parse_arguments
\* returns None and main calls read_stdin_json, ReadStdinJson or
\* ReadStdinJsonFails, whatever the options were.
NextCommandLine ==
    \/ ParseArguments
    \/ ParseArgumentsExits
    \/ ReadStdinJson
    \/ ReadStdinJsonFails
    \/ LoadCriteriaFile
    \/ LoadCriteriaDefault
    \/ LoadCriteriaInvalidJson
    \/ Score
    \/ Decide
    \/ CalculateOffer
    \/ NoOffer
    \/ FormatOutput

SpecCommandLine == Init /\ [][NextCommandLine]_vars

-----------------------------------------------------------------------------
(* A criteria file whose base factor bands begin five to ten points higher  *)
(* than the default ones: ordered bands, the rates falling as before.       *)

ShiftedBandsCriteria ==
    [DefaultCriteria EXCEPT
        !.base_factor_rates.premium.min_score = 900,
        !.base_factor_rates.standard.min_score = 750,
        !.base_factor_rates.subprime.min_score = 600]

LoadShiftedBandsCriteriaFile ==
    /\ pc = "input"
    /\ config_file' = [found |-> "document", document |-> ShiftedBandsCriteria]
    /\ criteria' = ShiftedBandsCriteria
    /\ stderr' = Append(stderr, "Loading MCA qualification criteria...")
    /\ pc' = "loaded"
    /\ UNCHANGED <<clock, history, business_data, qualification_score, decision, offer, output>>

NextShiftedBands ==
    \/ GetInput
    \/ LoadCriteriaDefault
    \/ LoadShiftedBandsCriteriaFile
    \/ Score
    \/ Decide
    \/ CalculateOffer
    \/ NoOffer
    \/ FormatOutput

SpecShiftedBands == Init /\ [][NextShiftedBands]_vars
-----------------------------------------------------------------------------
(* Properties.                                                              *)

Criteria4 == {"revenue", "credit", "time_in_business", "industry"}

Scored == qualification_score # None

Decided == decision # None

\* The minimum requirements the applicant is strictly below, as the set of
\* the fields' names.
ViolatedFloors(data, crit) ==
    {f \in {"monthly_revenue", "time_in_business_months", "credit_score"} :
        data[f] < crit.minimum_requirements[f]}

\* C1: with the default criteria the total score is the sum of the four
\* sub-scores (maxima 40, 25, 20 and 15 points), every sub-score lies between
\* 0 and its max_points, and the total lies between 0 and 100.
C1_TotalIsBoundedSum ==
    (Scored /\ criteria = DefaultCriteria) =>
        LET b == qualification_score.score_breakdown
        IN  /\ qualification_score.total_score =
                   b.revenue.score + b.credit.score + b.time_in_business.score + b.industry.score
            /\ <<b.revenue.max_points, b.credit.max_points,
                 b.time_in_business.max_points, b.industry.max_points>> = <<40, 25, 20, 15>>
            /\ \A k \in Criteria4 : b[k].score >= 0 /\ b[k].score <= 10 * b[k].max_points
            /\ qualification_score.total_score >= 0
            /\ qualification_score.total_score <= 1000

\* The best applicant under the default criteria has been scored: 100 points.
C1_Witness ==
    /\ pc = "scored"
    /\ criteria = DefaultCriteria
    /\ qualification_score.total_score = 1000
    /\ qualification_score.score_breakdown.industry.score = 150

\* C2: raising monthly_revenue, credit_score or time_in_business_months alone
\* (same industry, same criteria) never lowers total_score.
C2_Monotone ==
    pc = "scored" =>
        /\ \A r \in RevenueValues : r >= business_data.monthly_revenue =>
               calculate_qualification_score([business_data EXCEPT !.monthly_revenue = r],
                                             criteria).total_score
                   >= qualification_score.total_score
        /\ \A c \in CreditValues : c >= business_data.credit_score =>
               calculate_qualification_score([business_data EXCEPT !.credit_score = c],
                                             criteria).total_score
                   >= qualification_score.total_score
        /\ \A m \in MonthsValues : m >= business_data.time_in_business_months =>
               calculate_qualification_score([business_data EXCEPT !.time_in_business_months = m],
                                             criteria).total_score
                   >= qualification_score.total_score

\* A scored applicant for whom one more credit point raises the total.
C2_Witness ==
    /\ pc = "scored"
    /\ business_data.credit_score + 1 \in CreditValues
    /\ calculate_qualification_score([business_data EXCEPT !.credit_score = @ + 1],
                                     criteria).total_score
           > qualification_score.total_score

\* C3: an applicant strictly below a minimum requirement is REJECTED whatever
\* the total score is (also with 100 points), a revenue below its minimum is
\* named in the reasons, and main computes and emits no offer.
C3_FloorEnforced ==
    (Decided /\ ViolatedFloors(business_data, criteria) # {}) =>
        /\ decision.status = "REJECTED"
        /\ \A s \in {0, 499, 500, 700, 850, 1000} :
               make_qualification_decision(business_data,
                   [qualification_score EXCEPT !.total_score = s], criteria).status = "REJECTED"
        /\ "monthly_revenue" \in ViolatedFloors(business_data, criteria) =>
               \E i \in DOMAIN decision.rejection_reasons :
                   decision.rejection_reasons[i].about = "Monthly revenue"
        /\ pc \in {"offer_step_done", "done"} => offer = None
        /\ pc = "done" => "offer_details" \notin DOMAIN output

\* A run of main that ended for an applicant with 100 points and a revenue
\* below the minimum requirement.
C3_Witness ==
    /\ pc = "done"
    /\ qualification_score.total_score = 1000
    /\ "monthly_revenue" \in ViolatedFloors(business_data, criteria)
    /\ decision.status = "REJECTED"
    /\ "offer_details" \notin DOMAIN output

\* C4: every offer that calculate_advance_offer returns has a factor rate
\* within [1.10, 1.50], whatever the criteria's rates and adjustments add up to.
C4_FactorRateClamped ==
    offer # None => (offer.factor_rate >= 1100 /\ offer.factor_rate <= 1500)

UnclampedRate(off) ==
    off.calculation_details.base_factor_rate + off.calculation_details.credit_adjustment
    + off.calculation_details.industry_adjustment

\* An offer whose unclamped sum is 3.00 or more.
C4_Witness ==
    /\ offer # None
    /\ UnclampedRate(offer) >= 3000
    /\ offer.factor_rate = 1500

\* What the offer stage is specified to answer for a decision that is not approved.
PreconditionError == [error |-> "PreconditionError"]

\* C5: the offer stage called for an applicant whose decision is rejected
\* fails with a precondition error and returns no offer.
C5_RejectedOfferFails ==
    (pc = "offer_stage_called" /\ decision.status = "REJECTED") => offer = PreconditionError

\* The stage messages of main on stderr, in the order they were written.
StageLog ==
    SelectSeq(stderr, LAMBDA m : m \in {"Calculating qualification score...",
                                        "Evaluating qualification...",
                                        "Calculating advance offer...",
                                        "Qualification completed!"})

\* C6: main runs score, decide, offer, format_output in that order; the offer
\* stage runs exactly when the decision is approved, and the document holds
\* offer_details exactly when the status is APPROVED; a rejection ends
\* normally, without offer_details.
C6_PipelineOrder ==
    /\ pc = "offer_step_done" =>
           /\ (offer # None) <=> (decision.status = "APPROVED")
           /\ ENABLED FormatOutput
    /\ pc = "done" =>
           /\ decision.status \in {"APPROVED", "REJECTED"}
           /\ (offer # None) <=> (decision.status = "APPROVED")
           /\ ("offer_details" \in DOMAIN output) <=> (decision.status = "APPROVED")
           /\ StageLog =
                  IF decision.status = "APPROVED"
                  THEN <<"Calculating qualification score...", "Evaluating qualification...",
                         "Calculating advance offer...", "Qualification completed!">>
                  ELSE <<"Calculating qualification score...", "Evaluating qualification...",
                         "Qualification completed!">>
           /\ output.qualification_score = qualification_score
           /\ output.decision = decision
           /\ "offer_details" \in DOMAIN output => output.offer_details = offer

\* A run of main that ended normally with a rejection on score (no minimum
\* requirement violated) and without offer_details.
C6_Witness ==
    /\ pc = "done"
    /\ decision.status = "REJECTED"
    /\ ViolatedFloors(business_data, criteria) = {}
    /\ "offer_details" \notin DOMAIN output

\* The lower bound of a tier (revenue and credit tiers: min; time in business:
\* min_months; base factor rates: min_score).
TierMin(tiers, name) ==
    IF "min" \in DOMAIN tiers[name] THEN tiers[name].min
    ELSE IF "min_months" \in DOMAIN tiers[name] THEN tiers[name].min_months
    ELSE tiers[name].min_score

\* name is the tier of the set with the greatest lower bound not above value.
IsGreatestTierAtMost(name, value, tiers) ==
    /\ name \in DOMAIN tiers
    /\ TierMin(tiers, name) <= value
    /\ \A other \in DOMAIN tiers :
           TierMin(tiers, other) <= value => TierMin(tiers, other) <= TierMin(tiers, name)

LowestTier(tiers) ==
    CHOOSE name \in DOMAIN tiers :
        \A other \in DOMAIN tiers : TierMin(tiers, name) <= TierMin(tiers, other)

\* C7 as claimed: for every non-negative value, each scoring function and each
\* offer lookup selects the configured tier with the greatest lower bound not
\* above the value.
C7_EveryValueHasItsTier ==
    Scored =>
        LET b == qualification_score.score_breakdown
            d == business_data
        IN  /\ IsGreatestTierAtMost(b.revenue.tier, d.monthly_revenue, criteria.revenue_tiers)
            /\ IsGreatestTierAtMost(b.credit.tier, d.credit_score, criteria.credit_score_tiers)
            /\ IsGreatestTierAtMost(b.time_in_business.tier, d.time_in_business_months,
                                    criteria.time_in_business_multipliers)
            /\ IsGreatestTierAtMost(get_revenue_tier(d.monthly_revenue, criteria),
                                    d.monthly_revenue, criteria.revenue_tiers)
            /\ IsGreatestTierAtMost(get_credit_tier(d.credit_score, criteria),
                                    d.credit_score, criteria.credit_score_tiers)
            /\ IsGreatestTierAtMost(get_time_tier(d.time_in_business_months, criteria),
                                    d.time_in_business_months, criteria.time_in_business_multipliers)
            /\ IsGreatestTierAtMost(get_base_factor_band(qualification_score.total_score, criteria),
                                    qualification_score.total_score, criteria.base_factor_rates)

\* One criterion of C7 as amended: at or above the lowest tier's lower bound
\* the scoring function and the offer lookup select the tier with the greatest
\* lower bound not above the value; below it the scoring function selects no
\* tier (its label is none of the set, the sub-score is 0) and the offer
\* lookup falls back to the lowest tier.
TierSelected(sub, lookup, value, tiers) ==
    IF value >= TierMin(tiers, LowestTier(tiers))
    THEN /\ IsGreatestTierAtMost(sub.tier, value, tiers)
         /\ IsGreatestTierAtMost(lookup, value, tiers)
    ELSE /\ sub.tier \in {"below_minimum", "too_new"}
         /\ sub.score = 0
         /\ lookup = LowestTier(tiers)

\* C7, amended: see TierSelected; the base factor band is the one with the
\* greatest min_score not above the total score; and the numbers an offer is
\* computed from are those of the tiers so selected.
C7_TierCoverage ==
    Scored =>
        LET b == qualification_score.score_breakdown
            d == business_data
            revenue_tier == get_revenue_tier(d.monthly_revenue, criteria)
            credit_tier == get_credit_tier(d.credit_score, criteria)
            time_tier == get_time_tier(d.time_in_business_months, criteria)
        IN  /\ TierSelected(b.revenue, revenue_tier, d.monthly_revenue, criteria.revenue_tiers)
            /\ TierSelected(b.credit, credit_tier, d.credit_score, criteria.credit_score_tiers)
            /\ TierSelected(b.time_in_business, time_tier, d.time_in_business_months,
                            criteria.time_in_business_multipliers)
            /\ IsGreatestTierAtMost(get_base_factor_band(qualification_score.total_score, criteria),
                                    qualification_score.total_score, criteria.base_factor_rates)
            /\ offer # None =>
                   /\ offer.calculation_details.base_advance_percentage
                          = criteria.revenue_tiers[revenue_tier].max_advance_percentage
                   /\ offer.calculation_details.credit_adjustment
                          = criteria.credit_score_tiers[credit_tier].factor_rate_adjustment
                   /\ offer.calculation_details.time_in_business_multiplier
                          = criteria.time_in_business_multipliers[time_tier].multiplier

\* main computed an offer for an applicant whose revenue is exactly tier_3's
\* lower bound and whose time in business is below the lowest tier.
C7_Witness ==
    /\ pc = "offer_step_done"
    /\ offer # None
    /\ business_data.monthly_revenue = criteria.revenue_tiers.tier_3.min
    /\ qualification_score.score_breakdown.revenue.tier = "tier_3"
    /\ business_data.time_in_business_months < criteria.time_in_business_multipliers.new.min_months
    /\ qualification_score.score_breakdown.time_in_business.tier = "too_new"
    /\ offer.calculation_details.time_in_business_multiplier
           = criteria.time_in_business_multipliers.new.multiplier

\* The subject of the reason that the minimum-requirement check gives for a field.
FloorAbout(field) ==
    CASE field = "monthly_revenue" -> "Monthly revenue"
      [] field = "time_in_business_months" -> "Time in business"
      [] field = "credit_score" -> "Credit score"

\* The subjects of a rejected decision's reasons, in their order.
ReasonsAbout(dec) == [i \in DOMAIN dec.rejection_reasons |-> dec.rejection_reasons[i].about]

\* C8: a value equal to a threshold meets it: with all minimum requirements met
\* a total of exactly 50 is APPROVED; a field equal to its minimum requirement
\* gives no minimum-requirement reason; a value equal to a tier's lower bound
\* is placed in that tier by the scoring function and by the offer lookup.
C8_BoundaryIsPermissive ==
    Decided =>
        LET b == qualification_score.score_breakdown
            d == business_data
        IN  /\ (ViolatedFloors(d, criteria) = {} /\ qualification_score.total_score = 500)
                   => decision.status = "APPROVED"
            /\ \A f \in {"monthly_revenue", "time_in_business_months", "credit_score"} :
                   (d[f] = criteria.minimum_requirements[f] /\ decision.status = "REJECTED")
                       => \A i \in DOMAIN decision.rejection_reasons :
                              decision.rejection_reasons[i].about # FloorAbout(f)
            /\ (ViolatedFloors(d, criteria) = {} /\ decision.status = "REJECTED")
                   => decision.primary_reason.about # "Does not meet minimum requirements"
            /\ \A t \in DOMAIN criteria.revenue_tiers :
                   d.monthly_revenue = criteria.revenue_tiers[t].min =>
                       (b.revenue.tier = t /\ get_revenue_tier(d.monthly_revenue, criteria) = t)
            /\ \A t \in DOMAIN criteria.credit_score_tiers :
                   d.credit_score = criteria.credit_score_tiers[t].min =>
                       (b.credit.tier = t /\ get_credit_tier(d.credit_score, criteria) = t)
            /\ \A t \in DOMAIN criteria.time_in_business_multipliers :
                   d.time_in_business_months = criteria.time_in_business_multipliers[t].min_months =>
                       (b.time_in_business.tier = t
                        /\ get_time_tier(d.time_in_business_months, criteria) = t)
            /\ \A t \in DOMAIN criteria.base_factor_rates :
                   qualification_score.total_score = criteria.base_factor_rates[t].min_score =>
                       get_base_factor_band(qualification_score.total_score, criteria) = t

\* An applicant who meets every minimum requirement was decided with a total
\* of exactly 50 points.
C8_Witness ==
    /\ pc = "decided"
    /\ ViolatedFloors(business_data, criteria) = {}
    /\ qualification_score.total_score = 500
    /\ decision.status = "APPROVED"

\* C9: a rejection for minimum requirements lists exactly one reason per
\* violated requirement, in the order revenue, time in business, credit score.
C9_FloorChecksExhaustive ==
    (Decided /\ ViolatedFloors(business_data, criteria) # {}) =>
        /\ decision.status = "REJECTED"
        /\ ReasonsAbout(decision) =
               SelectSeq(<<"Monthly revenue", "Time in business", "Credit score">>,
                         LAMBDA a : \E f \in ViolatedFloors(business_data, criteria) : FloorAbout(f) = a)
        /\ Len(decision.rejection_reasons) = Cardinality(ViolatedFloors(business_data, criteria))

\* All three minimum requirements are violated and three reasons are given.
C9_Witness ==
    /\ pc = "decided"
    /\ Cardinality(ViolatedFloors(business_data, criteria)) = 3
    /\ ReasonsAbout(decision) = <<"Monthly revenue", "Time in business", "Credit score">>

\* The criterion a low-score reason names.
CriterionOf(about) ==
    CASE about = "Low monthly revenue" -> "revenue"
      [] about = "Below-average credit score" -> "credit"
      [] about = "Limited operating history" -> "time_in_business"
      [] about = "High-risk industry" -> "industry"

\* The cut-lines of get_low_score_reasons, in tenths of a point.
CutLine == [revenue |-> 200, credit |-> 150, time_in_business |-> 100, industry |-> 100]

\* The decision is a rejection on score: every minimum requirement is met.
ScoreRejected ==
    /\ Decided
    /\ ViolatedFloors(business_data, criteria) = {}
    /\ qualification_score.total_score < 500
    /\ decision.status = "REJECTED"

\* The criteria a rejected decision's reasons name, in their order.
NamedCriteria(dec) == [i \in DOMAIN dec.rejection_reasons |-> CriterionOf(dec.rejection_reasons[i].about)]

BelowCutLine(k) == qualification_score.score_breakdown[k].score < CutLine[k]

\* C10 as claimed: the reasons of a rejection on score name exactly the criteria
\* whose sub-score is below the cut-line, the lowest sub-score first.
C10_ReasonsAscending ==
    ScoreRejected =>
        LET named == NamedCriteria(decision)
            b == qualification_score.score_breakdown
        IN  /\ {named[i] : i \in DOMAIN named} = {k \in Criteria4 : BelowCutLine(k)}
            /\ Len(named) = Cardinality({k \in Criteria4 : BelowCutLine(k)})
            /\ \A i, j \in DOMAIN named : i < j => b[named[i]].score <= b[named[j]].score

\* C10, amended: the reasons name exactly the criteria whose sub-score is below
\* the cut-line (20, 15, 10 and 10 points), in the fixed order revenue, credit,
\* time in business, industry.
C10_ReasonsInCriterionOrder ==
    ScoreRejected =>
        NamedCriteria(decision) =
            SelectSeq(<<"revenue", "credit", "time_in_business", "industry">>, BelowCutLine)

\* A rejection on score whose first reason names a criterion with a higher
\* sub-score than its second.
C10_Witness ==
    /\ pc = "decided"
    /\ ScoreRejected
    /\ Len(decision.rejection_reasons) >= 2
    /\ qualification_score.score_breakdown[NamedCriteria(decision)[1]].score
           > qualification_score.score_breakdown[NamedCriteria(decision)[2]].score

\* C11: every decision is APPROVED or REJECTED; it is APPROVED exactly when no
\* minimum requirement is violated and total_score >= 50; an approved decision
\* carries the approval_tier Premium from 85, Standard from 70 to below 85 and
\* Subprime from 50 to below 70; a rejected decision carries no approval_tier.
C11_StatusAndApprovalTier ==
    Decided =>
        LET score == qualification_score.total_score
        IN  /\ decision.status \in {"APPROVED", "REJECTED"}
            /\ (decision.status = "APPROVED")
                   <=> (ViolatedFloors(business_data, criteria) = {} /\ score >= 500)
            /\ decision.status = "APPROVED" =>
                   /\ "approval_tier" \in DOMAIN decision
                   /\ decision.approval_tier =
                          (IF score >= 850 THEN "Premium"
                           ELSE IF score >= 700 THEN "Standard"
                           ELSE "Subprime")
            /\ decision.status = "REJECTED" => "approval_tier" \notin DOMAIN decision

\* An approval at exactly 70 points, in the Standard tier.
C11_Witness ==
    /\ pc = "decided"
    /\ decision.status = "APPROVED"
    /\ qualification_score.total_score = 700
    /\ decision.approval_tier = "Standard"

\* The documented domains of the applicant's fields.
InDomain(data) ==
    /\ data.monthly_revenue >= 0
    /\ data.time_in_business_months >= 0
    /\ data.credit_score >= 300
    /\ data.credit_score <= 850

\* C12: an applicant with a field outside its domain (negative revenue,
\* negative months, credit score outside [300, 850]) gets no score, no decision
\* and no offer: the run fails with a validation error; an applicant within the
\* domains is scored whatever the industry label is.
C12_OutOfDomainRejected ==
    /\ (business_data # None /\ ~InDomain(business_data)) =>
           /\ qualification_score = None
           /\ decision = None
           /\ offer = None
           /\ pc \in {"input", "loaded", "error"}
    /\ (pc = "loaded" /\ InDomain(business_data)) => ENABLED Score

\* The risk classes one of whose member names contains the label, or lies
\* within it, letter case aside: as positions in the declaration order.
ClassesMatching(label, risk_factors) ==
    LET label_lower == Lower(label)
    IN  {k \in DOMAIN RiskLevelOrder :
            \E i \in DOMAIN risk_factors[RiskLevelOrder[k]].industries :
                LET member_lower == Lower(risk_factors[RiskLevelOrder[k]].industries[i])
                IN  \/ IsSubstring(member_lower, label_lower)
                    \/ IsSubstring(label_lower, member_lower)}

\* The first of them in declaration order; "unknown" when there is none.
FirstClass(label, risk_factors) ==
    LET matching == ClassesMatching(label, risk_factors)
    IN  IF matching = {} THEN "unknown"
        ELSE RiskLevelOrder[CHOOSE k \in matching : \A other \in matching : k <= other]

\* C13: the industry label is matched without regard to case as a substring
\* against each risk class's members, and the first class in the order
\* low_risk, medium_risk, high_risk with a matching member wins; the
\* sub-score of score_industry and the adjustment of get_industry_adjustment
\* come from that same class.  (Stated where the score and where the offer
\* have just been computed; later steps leave both unchanged.)
C13_IndustryClassResolution ==
    pc \in {"scored", "offer_step_done", "offer_stage_called"} =>
        LET risk_factors == criteria.industry_risk_factors
            class == FirstClass(business_data.industry, risk_factors)
        IN  /\ qualification_score.score_breakdown.industry.risk_level = class
            /\ offer # None =>
                   offer.calculation_details.industry_adjustment =
                       (IF class = "unknown" THEN 0
                        ELSE risk_factors[class].factor_rate_adjustment)

\* An offer for "Auto Repair and Retail", which holds a medium_risk and a
\* high_risk name: both functions answer medium_risk.
C13_Witness ==
    /\ offer # None
    /\ business_data.industry = AutoRepair \o <<" ", "a", "n", "d", " ">> \o Retail
    /\ ClassesMatching(business_data.industry, criteria.industry_risk_factors) = {2, 3}
    /\ qualification_score.score_breakdown.industry.risk_level = "medium_risk"
    /\ offer.calculation_details.industry_adjustment =
           criteria.industry_risk_factors.medium_risk.factor_rate_adjustment
    /\ offer.calculation_details.industry_adjustment #
           criteria.industry_risk_factors.high_risk.factor_rate_adjustment

\* The lower bounds of a tier set, best tier first.
RevenueBounds(crit) ==
    <<crit.revenue_tiers.tier_1.min, crit.revenue_tiers.tier_2.min,
      crit.revenue_tiers.tier_3.min, crit.revenue_tiers.tier_4.min>>

CreditBounds(crit) ==
    <<crit.credit_score_tiers.excellent.min, crit.credit_score_tiers.good.min,
      crit.credit_score_tiers.fair.min, crit.credit_score_tiers.poor.min,
      crit.credit_score_tiers.very_poor.min>>

TimeBounds(crit) ==
    <<crit.time_in_business_multipliers.established.min_months,
      crit.time_in_business_multipliers.mature.min_months,
      crit.time_in_business_multipliers.growing.min_months,
      crit.time_in_business_multipliers.new.min_months>>

TimeMultipliers(crit) ==
    <<crit.time_in_business_multipliers.established.multiplier,
      crit.time_in_business_multipliers.mature.multiplier,
      crit.time_in_business_multipliers.growing.multiplier,
      crit.time_in_business_multipliers.new.multiplier>>

StrictlyFalling(seq) == \A i \in 1..(Len(seq) - 1) : seq[i] > seq[i + 1]

NeverRising(seq) == \A i \in 1..(Len(seq) - 1) : seq[i] >= seq[i + 1]

\* The tier-coverage invariant of a configuration: within each tier set the
\* lower bounds differ and are ordered, the lowest tier begins no higher than
\* the minimum requirement (no accepted value lies below every tier), and the
\* time-in-business multipliers are monotone.
TierCoverage(crit) ==
    /\ StrictlyFalling(RevenueBounds(crit))
    /\ StrictlyFalling(CreditBounds(crit))
    /\ StrictlyFalling(TimeBounds(crit))
    /\ crit.revenue_tiers.tier_4.min <= crit.minimum_requirements.monthly_revenue
    /\ crit.credit_score_tiers.very_poor.min <= crit.minimum_requirements.credit_score
    /\ crit.time_in_business_multipliers.new.min_months
           <= crit.minimum_requirements.time_in_business_months
    /\ NeverRising(TimeMultipliers(crit))

\* C14: a criteria file that violates the tier-coverage invariant is refused
\* by the load with a configuration error: it never becomes the criteria, and
\* nothing is scored, decided, offered or written for it.
C14_IncoherentConfigRefused ==
    (config_file # None /\ config_file.found = "document"
     /\ ~TierCoverage(config_file.document)) =>
        /\ criteria = None
        /\ qualification_score = None
        /\ decision = None
        /\ offer = None
        /\ output = None

Warnings ==
    {"Warning: MCA config file not found, using defaults",
     "Warning: Invalid JSON in MCA config, using defaults"}

WarningFor(found) ==
    IF found = "no file" THEN "Warning: MCA config file not found, using defaults"
    ELSE "Warning: Invalid JSON in MCA config, using defaults"

\* C15: when the criteria file is absent or is not JSON the criteria are
\* exactly the built-in defaults, and the warning for that case is on stderr
\* from the load on, before the scoring stage begins; when the file holds a
\* document the criteria are that document, unchanged, and there is no warning.
C15_FallbackIsLoud ==
    config_file # None =>
        /\ config_file.found \in {"no file", "invalid JSON"} =>
               /\ criteria = DefaultCriteria
               /\ \E i \in DOMAIN stderr :
                      /\ stderr[i] = WarningFor(config_file.found)
                      /\ \A j \in DOMAIN stderr :
                             stderr[j] = "Calculating qualification score..." => i < j
               /\ \A i \in DOMAIN stderr :
                      stderr[i] \in Warnings => stderr[i] = WarningFor(config_file.found)
        /\ config_file.found = "document" =>
               /\ criteria = config_file.document
               /\ \A i \in DOMAIN stderr : stderr[i] \notin Warnings

\* A run of main that ended after a criteria file that is not JSON.
C15_Witness ==
    /\ pc = "done"
    /\ config_file # None
    /\ config_file.found = "invalid JSON"
    /\ criteria = DefaultCriteria
    /\ \E i \in DOMAIN stderr : stderr[i] = "Warning: Invalid JSON in MCA config, using defaults"

\* The applicant of scenario A.
ScenarioA ==
    [monthly_revenue |-> 500000, credit_score |-> 650, time_in_business_months |-> 24,
     industry |-> Restaurant]

\* C16: under the default criteria the applicant of scenario A (revenue
\* 500,000, credit score 650, 24 months, "Restaurant") is placed in the
\* high_risk industry class and is APPROVED; main's offer has the advance
\* revenue x 250% (tier_1) x 1.1 (mature) = 1,375,000 and a factor rate within
\* [1.10, 1.50].
C16_ScenarioA ==
    (business_data = ScenarioA /\ criteria = DefaultCriteria) =>
        /\ Scored => qualification_score.score_breakdown.industry.risk_level = "high_risk"
        /\ Decided => decision.status = "APPROVED"
        /\ pc = "decided" => ENABLED CalculateOffer
        /\ offer # None =>
               /\ IsGreatestTierAtMost("tier_1", 500000, criteria.revenue_tiers)
               /\ IsGreatestTierAtMost("mature", 24, criteria.time_in_business_multipliers)
               /\ offer.advance_amount * 10 =
                      500000 * criteria.revenue_tiers.tier_1.max_advance_percentage
                             * criteria.time_in_business_multipliers.mature.multiplier
               /\ offer.advance_amount = 137500000
               /\ offer.factor_rate >= 1100
               /\ offer.factor_rate <= 1500

\* Scenario A has run to the end of main: 84.8 points, factor rate 1.33.
C16_Witness ==
    /\ pc = "done"
    /\ business_data = ScenarioA
    /\ criteria = DefaultCriteria
    /\ qualification_score.total_score = 848
    /\ decision.status = "APPROVED"
    /\ offer.advance_amount = 137500000
    /\ offer.factor_rate = 1330
    /\ "offer_details" \in DOMAIN output

\* C17: the advance of every approved applicant is monthly_revenue x the
\* max_advance_percentage of the matched revenue tier / 100 x the multiplier
\* of the matched time-in-business tier, the matched tier being the tier with
\* the greatest lower bound that does not exceed the applicant's value.
C17_AdvanceFromMatchedTiers ==
    (offer # None /\ decision.status = "APPROVED") =>
        \E revenue_tier \in DOMAIN criteria.revenue_tiers,
           time_tier \in DOMAIN criteria.time_in_business_multipliers :
            /\ IsGreatestTierAtMost(revenue_tier, business_data.monthly_revenue,
                                    criteria.revenue_tiers)
            /\ IsGreatestTierAtMost(time_tier, business_data.time_in_business_months,
                                    criteria.time_in_business_multipliers)
            /\ offer.advance_amount * 10 =
                   business_data.monthly_revenue
                   * criteria.revenue_tiers[revenue_tier].max_advance_percentage
                   * criteria.time_in_business_multipliers[time_tier].multiplier

\* The same, for the criteria whose minimum requirements are not below the
\* lowest tiers.
C17_HoldsWithCoveringTiers ==
    (criteria # None /\ TierCoverage(criteria)) => C17_AdvanceFromMatchedTiers

\* The total scores that the base factor rate and the recommended term are
\* compared over: every whole point from 0 to 100, and the tenth below each
\* band's bound.
ScoreProbes == {10 * k : k \in 0..100} \cup {499, 699, 849}

\* The bands' rates fall as their min_score rises, as the default bands' do.
RatesFallWithScore(rates) ==
    \A a, b \in DOMAIN rates :
        rates[a].min_score <= rates[b].min_score => rates[a].factor_rate >= rates[b].factor_rate

\* C18: the base factor rate of an offer is the factor_rate of the band with
\* the greatest min_score not above total_score; with the default bands that
\* is 1.15 from 85, 1.25 from 70, 1.35 from 50 and 1.45 below; hence, the
\* bands' rates falling with min_score, no higher score has a higher base rate.
C18_BaseRateBand ==
    offer # None =>
        LET rates == criteria.base_factor_rates
            score == qualification_score.total_score
            base == offer.calculation_details.base_factor_rate
        IN  /\ \E band \in DOMAIN rates :
                   /\ IsGreatestTierAtMost(band, score, rates)
                   /\ base = rates[band].factor_rate
            /\ rates = DefaultCriteria.base_factor_rates =>
                   base = (IF score >= 850 THEN 1150
                           ELSE IF score >= 700 THEN 1250
                           ELSE IF score >= 500 THEN 1350
                           ELSE 1450)
            /\ RatesFallWithScore(rates) =>
                   \A higher \in ScoreProbes :
                       higher >= score => get_base_factor_rate(higher, criteria) <= base

\* An offer at exactly 70 points with the default bands: 1.25, and 1.35 a
\* tenth of a point below.
C18_Witness ==
    /\ offer # None
    /\ criteria.base_factor_rates = DefaultCriteria.base_factor_rates
    /\ qualification_score.total_score = 700
    /\ offer.calculation_details.base_factor_rate = 1250
    /\ get_base_factor_rate(699, criteria) = 1350

\* C19: the recommended term of an offer comes from a fixed table by score
\* band (6 months from 70 points, 9 from 50, 12 below), is one of 6, 9 and 12
\* months, never 0, and no higher score has a longer term.
C19_TermTable ==
    offer # None =>
        LET score == qualification_score.total_score
            term == offer.recommended_term_months
        IN  /\ term \in {6, 9, 12}
            /\ term = (IF score >= 700 THEN 6 ELSE IF score >= 500 THEN 9 ELSE 12)
            /\ \A higher \in ScoreProbes :
                   /\ get_recommended_term(higher) \in {6, 9, 12}
                   /\ higher >= score => get_recommended_term(higher) <= term

\* An offer at exactly 50 points: 9 months, 12 a tenth of a point below and
\* 6 from 70 points.
C19_Witness ==
    /\ offer # None
    /\ qualification_score.total_score = 500
    /\ offer.recommended_term_months = 9
    /\ get_recommended_term(499) = 12
    /\ get_recommended_term(700) = 6

\* C20: the effective APR of every offer is ((factor_rate - 1) x 100 /
\* term_months) x 12, to two decimal places, of the offer's clamped factor
\* rate and recommended term; it is positive and lies between 10 and 100.
C20_EffectiveApr ==
    offer # None =>
        LET term == offer.recommended_term_months
            exact_times_term == (offer.factor_rate - 1000) * 120
        IN  /\ offer.factor_rate = Max(1100, Min(1500, UnclampedRate(offer)))
            /\ term = get_recommended_term(qualification_score.total_score)
            /\ 2 * (offer.effective_apr * term - exact_times_term) <= term
            /\ 2 * (exact_times_term - offer.effective_apr * term) <= term
            /\ offer.effective_apr > 0
            /\ offer.effective_apr >= 1000
            /\ offer.effective_apr <= 10000

\* main's offer at the upper end: factor rate 1.50 over 6 months, APR 100.
C20_Witness ==
    /\ pc = "done"
    /\ offer # None
    /\ offer.factor_rate = 1500
    /\ offer.recommended_term_months = 6
    /\ offer.effective_apr = 10000

\* An offer at the lower end: factor rate 1.10 over 12 months, APR 10.
C20_LowerEnd ==
    /\ offer # None
    /\ offer.factor_rate = 1100
    /\ offer.recommended_term_months = 12
    /\ offer.effective_apr = 1000

\* The unrounded advance of an offer, in tenths of a cent, from the applicant's
\* revenue and the percentage and multiplier the offer names.
UnroundedAdvance(data, off) ==
    data.monthly_revenue * off.calculation_details.base_advance_percentage
    * off.calculation_details.time_in_business_multiplier

\* cents is amount_cents + rest / 10000 rounded to whole cents (either way at
\* a half cent), rest being in ten-thousandths of a cent.
IsRounded(cents, amount_cents, rest) ==
    /\ cents - amount_cents \in {0, 1}
    /\ (cents - amount_cents) * 10000 - rest <= 5000
    /\ rest - (cents - amount_cents) * 10000 <= 5000

\* cents is (amount_cents + rest / 10000) / days rounded to whole cents.
IsRoundedQuotient(cents, amount_cents, rest, days) ==
    /\ cents * days - amount_cents <= days
    /\ amount_cents - cents * days <= days
    /\ (cents * days - amount_cents) * 10000 - rest <= 5000 * days
    /\ rest - (cents * days - amount_cents) * 10000 <= 5000 * days

\* C21: in every offer total_repayment is the unrounded advance times the
\* clamped factor rate, rounded to cents, and daily_payment is that unrounded
\* product divided by (term_months x 22), rounded to cents; neither is
\* computed from the rounded advance, the rounded total or the unclamped rate.
C21_RepaymentFromUnrounded ==
    offer # None =>
        LET advance == UnroundedAdvance(business_data, offer)
            rate == offer.factor_rate
            whole == (advance \div 10000) * rate + ((advance % 10000) * rate) \div 10000
            rest == ((advance % 10000) * rate) % 10000
            days == offer.recommended_term_months * 22
        IN  /\ rate = Max(1100, Min(1500, UnclampedRate(offer)))
            /\ offer.total_repayment.low <= offer.total_repayment.high
            /\ offer.daily_payment.low <= offer.daily_payment.high
            /\ IsRounded(offer.total_repayment.low, whole, rest)
            /\ IsRounded(offer.total_repayment.high, whole, rest)
            /\ IsRoundedQuotient(offer.daily_payment.low, whole, rest, days)
            /\ IsRoundedQuotient(offer.daily_payment.high, whole, rest, days)

\* main's offer for an advance that is no whole number of cents and a rate
\* that the clamp changed: the total differs from the rounded advance times
\* the rate.
C21_Witness ==
    /\ pc = "done"
    /\ offer # None
    /\ UnroundedAdvance(business_data, offer) % 10 # 0
    /\ UnclampedRate(offer) > 1500
    /\ offer.factor_rate = 1500
    /\ offer.total_repayment.low = offer.total_repayment.high
    /\ offer.total_repayment.low #
           (offer.advance_amount \div 1000) * offer.factor_rate
           + RoundDiv((offer.advance_amount % 1000) * offer.factor_rate, 1000)

\* The current evaluation has the applicant and the criteria of an earlier one.
SameInputs(earlier) ==
    earlier.business_data = business_data /\ earlier.criteria = criteria

C23_InputsUnchanged ==
    [][/\ pc \in {"loaded", "scored", "decided", "offer_step_done"} =>
              /\ business_data' = business_data
              /\ criteria' = criteria
       /\ pc \in {"scored", "decided", "offer_step_done"} =>
              qualification_score' = qualification_score
       /\ (pc = "done" /\ pc' = "loaded") => criteria' = criteria]_vars

\* The third evaluation with the criteria a caller loaded once, an approval
\* with an offer, after the evaluation of two other applicants.
C23_Witness ==
    /\ pc = "done"
    /\ Len(history) = 2
    /\ offer # None
    /\ config_file.found = "document"
    /\ criteria = config_file.document
    /\ \A i \in DOMAIN history :
           /\ history[i].criteria = criteria
           /\ history[i].business_data # business_data
           /\ history[i].qualification_score # qualification_score

\* C24: a record without one of the four required fields does not reach the
\* scoring stage.  When the run has ended in an error there is no score, no
\* decision, no offer and no output document; and whatever record got past
\* the input step, from a JSON document or from the command line, has all
\* four fields.
C24_IncompleteRejected ==
    /\ pc = "error" =>
           /\ business_data = None
           /\ qualification_score = None
           /\ decision = None
           /\ offer = None
           /\ output = None
    /\ pc \notin {"start", "error"} =>
           \A k \in DOMAIN required_fields : required_fields[k] \in DOMAIN business_data
    /\ pc = "start" =>
           \A args \in CommandLines :
               (AnyArgument(args) /\ ~AllArguments(args)) =>
                   ~ENABLED (/\ ParseArguments
                             /\ business_data' = FromArguments(args))

\* A command line with some of the options has ended the run with the error
\* of the parser, and nothing was scored.
C24_Witness ==
    /\ pc = "error"
    /\ stderr = <<"error: All arguments required">>
    /\ qualification_score = None

\* A JSON document without a field has ended the run with the ValueError.
C24_WitnessJson ==
    /\ pc = "error"
    /\ Len(stderr) = 2
    /\ stderr[1] = "Error: JSON must contain field"
    /\ stderr[2] = "credit_score"
    /\ qualification_score = None

\* The percentage of the maximum that the code gives each tier.
RevenuePercent ==
    [tier_1 |-> 100, tier_2 |-> 85, tier_3 |-> 70, tier_4 |-> 50, below_minimum |-> 0]

CreditPercent ==
    [excellent |-> 100, good |-> 90, fair |-> 75, poor |-> 60, very_poor |-> 40,
     below_minimum |-> 0]

TimePercent ==
    [established |-> 100, mature |-> 85, growing |-> 70, new |-> 50, too_new |-> 0]

\* A value below the lowest tier's lower bound has the sub-score 0.
BelowLowestScoresZero ==
    LET parts == qualification_score.score_breakdown
    IN  /\ business_data.monthly_revenue < criteria.revenue_tiers.tier_4.min =>
               parts.revenue.score = 0
        /\ business_data.credit_score < criteria.credit_score_tiers.very_poor.min =>
               parts.credit.score = 0
        /\ business_data.time_in_business_months
               < criteria.time_in_business_multipliers.new.min_months =>
               parts.time_in_business.score = 0

\* C25 as it is worded: each sub-score is the percentage of the maximum itself
\* (scores are in tenths of a point, Fraction in hundredths).  Violated: the
\* credit tier 'fair' has 75% of 25 = 18.75, and the sub-score is 18.8.
C25_ExactPercentages ==
    (pc = "scored") =>
        LET parts == qualification_score.score_breakdown
        IN  /\ parts.revenue.score * 10 = Fraction(40, RevenuePercent[parts.revenue.tier])
            /\ parts.credit.score * 10 = Fraction(25, CreditPercent[parts.credit.tier])
            /\ parts.time_in_business.score * 10
                   = Fraction(20, TimePercent[parts.time_in_business.tier])
            /\ BelowLowestScoresZero

\* C25, amended: each sub-score is the percentage of the maximum that belongs
\* to the matched tier, rounded to one decimal place with ties to even (so
\* 'fair' credit has 18.8), whatever the other inputs; and a value below the
\* lowest tier's lower bound has exactly 0.
C25_SteppedPercentages ==
    (pc = "scored") =>
        LET parts == qualification_score.score_breakdown
        IN  /\ parts.revenue.score
                   = Round1(Fraction(40, RevenuePercent[parts.revenue.tier]))
            /\ parts.credit.score
                   = Round1(Fraction(25, CreditPercent[parts.credit.tier]))
            /\ parts.time_in_business.score
                   = Round1(Fraction(20, TimePercent[parts.time_in_business.tier]))
            /\ BelowLowestScoresZero

\* Revenue below the lowest tier scores 0 beside an excellent credit score and
\* an established business; and a 'fair' credit score has 18.8 points.
C25_Witness ==
    /\ pc = "scored"
    /\ criteria = DefaultCriteria
    /\ business_data.monthly_revenue = 9999
    /\ qualification_score.score_breakdown.revenue.score = 0
    /\ qualification_score.score_breakdown.time_in_business.score = 200
    /\ qualification_score.score_breakdown.credit.tier = "fair"
    /\ qualification_score.score_breakdown.credit.score = 188

\* C26: an industry label that matches no risk class is scored as one of the
\* medium_risk class is, 80% of the 15 points, and the offer stage gives it
\* the factor-rate adjustment of the medium_risk class.  Violated: the label
\* "Agriculture" has round(15 * 0.75, 1) = 11.2 points, a medium_risk
\* industry 12.0.
C26_UnknownAsMedium ==
    (pc = "scored"
     /\ qualification_score.score_breakdown.industry.risk_level = "unknown") =>
        /\ qualification_score.score_breakdown.industry.score = Round1(Fraction(15, 80))
        /\ get_industry_adjustment(business_data.industry, criteria)
               = criteria.industry_risk_factors.medium_risk.factor_rate_adjustment

\* The part of C26 that the code keeps: no failure, a sub-score, and with
\* these criteria the adjustment of the medium_risk class.
C26_UnknownNeverFails ==
    (pc = "scored"
     /\ qualification_score.score_breakdown.industry.risk_level = "unknown") =>
        /\ qualification_score.score_breakdown.industry.score = 112
        /\ get_industry_adjustment(business_data.industry, criteria)
               = criteria.industry_risk_factors.medium_risk.factor_rate_adjustment
        /\ ENABLED Decide

\* The grade, approval tier and confidence level of the decided applicant are
\* the three labels given.
Labels(grade, tier, confidence) ==
    /\ qualification_score.grade = grade
    /\ decision.approval_tier = tier
    /\ decision.confidence_level = confidence

\* The band the offer's base factor rate is taken from.
OfferBand == get_base_factor_band(qualification_score.total_score, criteria)

\* C27 as it is worded: for every approved applicant, A / Premium / High /
\* band premium exactly from 85 points, B / Standard / Medium-High / band
\* standard exactly from 70 to below 85, C / Subprime / Medium / band subprime
\* exactly from 50 to below 70; never D or F, never Low, never the high_risk
\* band.  Violated with bands that begin at 90, 75 and 60: at 85 points the
\* applicant is A / Premium / High and priced from the standard band, and at
\* 51.2 points from the high_risk band.
C27_LabelsAgree ==
    (pc = "offer_step_done" /\ decision.status = "APPROVED") =>
        LET score == qualification_score.total_score
        IN  /\ (Labels("A", "Premium", "High") /\ OfferBand = "premium") <=> score >= 850
            /\ (Labels("B", "Standard", "Medium-High") /\ OfferBand = "standard")
                   <=> (score >= 700 /\ score < 850)
            /\ (Labels("C", "Subprime", "Medium") /\ OfferBand = "subprime")
                   <=> (score >= 500 /\ score < 700)
            /\ qualification_score.grade \notin {"D", "F"}
            /\ decision.confidence_level # "Low"
            /\ OfferBand # "high_risk"
            /\ offer.calculation_details.base_factor_rate
                   = criteria.base_factor_rates[OfferBand].factor_rate

\* C27, amended: for every approved applicant, grade A, Premium and High hold
\* exactly from 85 points, B, Standard and Medium-High exactly from 70 to
\* below 85, C, Subprime and Medium exactly from 50 to below 70; never D or F,
\* never Low.  The base factor band is the configured band with the greatest
\* min_score not above the score: where the bands begin at 85, 70 and 50, as the
\* default ones do, it is premium, standard and subprime with the labels, and
\* never high_risk.
C27_LabelsAgreeWithDefaultBands ==
    (pc = "offer_step_done" /\ decision.status = "APPROVED") =>
        LET score == qualification_score.total_score
            rates == criteria.base_factor_rates
            default_bands == \A band \in DOMAIN rates :
                                 rates[band].min_score
                                     = DefaultCriteria.base_factor_rates[band].min_score
        IN  /\ Labels("A", "Premium", "High") <=> score >= 850
            /\ Labels("B", "Standard", "Medium-High") <=> (score >= 700 /\ score < 850)
            /\ Labels("C", "Subprime", "Medium") <=> (score >= 500 /\ score < 700)
            /\ qualification_score.grade \notin {"D", "F"}
            /\ decision.confidence_level # "Low"
            /\ IsGreatestTierAtMost(OfferBand, score, rates)
            /\ offer.calculation_details.base_factor_rate = rates[OfferBand].factor_rate
            /\ default_bands =>
                   /\ OfferBand = "premium" <=> score >= 850
                   /\ OfferBand = "standard" <=> (score >= 700 /\ score < 850)
                   /\ OfferBand = "subprime" <=> (score >= 500 /\ score < 700)
                   /\ OfferBand # "high_risk"

\* An approval at exactly 85 points under the default bands: A, Premium, High,
\* priced from the premium band.
C27_Witness ==
    /\ pc = "offer_step_done"
    /\ decision.status = "APPROVED"
    /\ criteria = DefaultCriteria
    /\ qualification_score.total_score = 850
    /\ Labels("A", "Premium", "High")
    /\ offer.calculation_details.base_factor_rate = 1150

\* An approval at 85 points under the bands that begin at 90, 75 and 60: A,
\* Premium, High, priced from the standard band.
C27_WitnessShifted ==
    /\ pc = "offer_step_done"
    /\ decision.status = "APPROVED"
    /\ criteria = ShiftedBandsCriteria
    /\ qualification_score.total_score = 850
    /\ Labels("A", "Premium", "High")
    /\ OfferBand = "standard"

\* C28: under the default criteria, for every approved applicant the tier in
\* the score breakdown for revenue, credit and time in business is a tier of
\* the criteria whose lower bound the value reaches, and the offer uses that
\* tier's max_advance_percentage, factor_rate_adjustment and multiplier: the
\* last branch of the offer lookups is not taken below its tier's lower bound.
C28_SameTierInScoreAndOffer ==
    (pc = "offer_step_done" /\ decision.status = "APPROVED" /\ criteria = DefaultCriteria) =>
        LET parts == qualification_score.score_breakdown
            details == offer.calculation_details
            revenue_tiers == criteria.revenue_tiers
            credit_tiers == criteria.credit_score_tiers
            time_tiers == criteria.time_in_business_multipliers
        IN  /\ parts.revenue.tier \in DOMAIN revenue_tiers
            /\ parts.credit.tier \in DOMAIN credit_tiers
            /\ parts.time_in_business.tier \in DOMAIN time_tiers
            /\ parts.revenue.tier = get_revenue_tier(business_data.monthly_revenue, criteria)
            /\ parts.credit.tier = get_credit_tier(business_data.credit_score, criteria)
            /\ parts.time_in_business.tier
                   = get_time_tier(business_data.time_in_business_months, criteria)
            /\ details.base_advance_percentage
                   = revenue_tiers[parts.revenue.tier].max_advance_percentage
            /\ details.credit_adjustment
                   = credit_tiers[parts.credit.tier].factor_rate_adjustment
            /\ details.time_in_business_multiplier
                   = time_tiers[parts.time_in_business.tier].multiplier
            /\ business_data.monthly_revenue >= revenue_tiers[parts.revenue.tier].min
            /\ business_data.credit_score >= credit_tiers[parts.credit.tier].min
            /\ business_data.time_in_business_months
                   >= time_tiers[parts.time_in_business.tier].min_months

\* An approved applicant exactly at the lower bound of each last tier, and so
\* in the last branch of all three lookups.
C28_Witness ==
    /\ pc = "offer_step_done"
    /\ decision.status = "APPROVED"
    /\ criteria = DefaultCriteria
    /\ business_data.monthly_revenue = 10000
    /\ business_data.credit_score = 500
    /\ business_data.time_in_business_months = 6
    /\ qualification_score.score_breakdown.revenue.tier = "tier_4"
    /\ qualification_score.score_breakdown.credit.tier = "very_poor"
    /\ qualification_score.score_breakdown.time_in_business.tier = "new"
    /\ offer.calculation_details.base_advance_percentage = 100

\* C29: under the default criteria, an applicant that meets the three minimum
\* requirements is rejected exactly when the revenue tier is tier_4, the
\* credit tier very_poor, the time tier 'new' and the industry high_risk, and
\* the total is then 49; every other such applicant, one with an unrecognized
\* industry among them, is approved.
C29_OnlyLowestCombinationRejected ==
    (pc = "decided" /\ criteria = DefaultCriteria
     /\ ViolatedFloors(business_data, criteria) = {}) =>
        LET parts == qualification_score.score_breakdown
            lowest == /\ parts.revenue.tier = "tier_4"
                      /\ parts.credit.tier = "very_poor"
                      /\ parts.time_in_business.tier = "new"
                      /\ parts.industry.risk_level = "high_risk"
        IN  /\ decision.status = "REJECTED" <=> lowest
            /\ decision.status = "APPROVED" <=> ~lowest
            /\ lowest => qualification_score.total_score = 490
            /\ parts.industry.risk_level = "unknown" => decision.status = "APPROVED"

\* The rejection at 49 points of an applicant that meets every minimum.
C29_Witness ==
    /\ pc = "decided"
    /\ criteria = DefaultCriteria
    /\ ViolatedFloors(business_data, criteria) = {}
    /\ decision.status = "REJECTED"
    /\ qualification_score.total_score = 490
    /\ business_data.industry = Restaurant

\* The same applicant with an unrecognized industry: 51.2 points, approved.
C29_WitnessUnknown ==
    /\ pc = "decided"
    /\ criteria = DefaultCriteria
    /\ business_data.monthly_revenue = 10000
    /\ business_data.credit_score = 500
    /\ business_data.time_in_business_months = 6
    /\ qualification_score.score_breakdown.industry.risk_level = "unknown"
    /\ qualification_score.total_score = 512
    /\ decision.status = "APPROVED"

\* C30: under the default criteria every decision explains itself: a REJECTED
\* decision, for a minimum requirement or for the score, has at least one
\* rejection reason and at least one recommendation; an APPROVED decision has
\* at least one approval reason and at least one condition entry.
C30_ExplanationNeverEmpty ==
    (pc = "decided" /\ criteria = DefaultCriteria) =>
        /\ decision.status = "REJECTED" =>
               /\ Len(decision.rejection_reasons) >= 1
               /\ Len(decision.recommendations) >= 1
        /\ decision.status = "APPROVED" =>
               /\ Len(decision.approval_reasons) >= 1
               /\ Len(decision.conditions) >= 1

\* An approval none of whose three conditions applies: the one entry says so.
C30_Witness ==
    /\ pc = "decided"
    /\ criteria = DefaultCriteria
    /\ decision.status = "APPROVED"
    /\ qualification_score.total_score >= 700
    /\ business_data.credit_score >= 620
    /\ business_data.time_in_business_months >= 12
    /\ decision.conditions = <<"Standard approval - no additional conditions">>

\* The rejection on the score, at 49 points, and an approval with no
\* sub-score high enough for a reason of its own.
C30_WitnessScoreRejection ==
    /\ pc = "decided"
    /\ criteria = DefaultCriteria
    /\ decision.status = "REJECTED"
    /\ ViolatedFloors(business_data, criteria) = {}
    /\ Len(decision.rejection_reasons) = 2
    /\ Len(decision.recommendations) = 4

C30_WitnessFallbackReason ==
    /\ pc = "decided"
    /\ criteria = DefaultCriteria
    /\ decision.status = "APPROVED"
    /\ Len(decision.approval_reasons) = 1
    /\ decision.approval_reasons[1].about = "Meets all minimum qualification requirements"

====
